---- MODULE Spec2Model ----
(***************************************************************************)
(* leagueDectect: the request-budget tracker (src/rate_limit.rs), the      *)
(* match cache (src/cache.rs) and the orchestrator run() (src/main.rs).    *)
(* Time is the wall clock in milliseconds; chrono's num_seconds() is the   *)
(* truncating division by 1000.                                            *)
(***************************************************************************)
EXTENDS Integers, Sequences, FiniteSets, TLC

VARIABLES
    now,          \* Utc::now() at the last step that took time, in
                  \* milliseconds
    log,          \* the in-memory RequestLog (rate_limiter in run())
    logFile,      \* ~/.league_detect/<player>.ratelimit.json
    cache,        \* the in-memory MatchCache (match_cache in run()), or NoCache
    cacheFile,    \* ~/.league_detect/<player>.json
    pc,           \* position of run()
    args,         \* the parsed command line of the current run
    match_ids,    \* the slice of ids run() analyses
    idx,          \* loop index of the match-detail loop
    match_history,\* MatchResult values pushed so far
    result,       \* how run() ended: "none", "ok", the error kind or "panic"
    calls,        \* history: client calls made by the current run
    records,      \* history: record_request() calls made by the current run
    saves,        \* history: RequestLog::save() calls made by the current run
    lastStep,     \* history: what the last step did
    lastBatch,    \* history: the batch given to the last add_matches()
    startUnique,  \* history: the cache had unique ids before the first merge
    steps,        \* history: record_request() calls, resp. runs started, so far
    shown,        \* what the current run has displayed to the user
    failedSaves,  \* history: 1 when the save() of the last step failed
    tracker,      \* ChampionStatsTracker: opponent stats by champion name
    ally_tracker, \* the tracker's ally stats by champion name
    encounters,   \* history: the encounters recorded, in order
    fetched,      \* history: the match the last get_match() returned
    analysis      \* the last value computed from a stat, a cache or the
                  \* budget, with its input

budgetVars == <<log, logFile>>
cacheVars == <<cache, cacheFile>>
runVars == <<pc, args, match_ids, idx, match_history, result>>
histVars == <<calls, records, saves, lastStep, lastBatch, startUnique, steps>>
outVars == <<shown, failedSaves>>
trackVars == <<tracker, ally_tracker, encounters, fetched>>
vars == <<now, budgetVars, cacheVars, runVars, histVars, outVars, trackVars,
          analysis>>

----------------------------------------------------------------------------
(* Exact fractions: the values the doubles of the program are measured     *)
(* against.  A fraction is kept in lowest terms, so that equal values are   *)
(* equal records.                                                           *)

RECURSIVE GCD(_, _)
GCD(a, b) == IF b = 0 THEN a ELSE GCD(b, a % b)

Abs(n) == IF n < 0 THEN 0 - n ELSE n

\* n / d for d > 0
Rat(n, d) ==
    LET g == GCD(Abs(n), d) IN [num |-> n \div g, den |-> d \div g]

Zero == Rat(0, 1)
One == Rat(1, 1)

RatAdd(a, b) == Rat(a.num * b.den + b.num * a.den, a.den * b.den)
RatSub(a, b) == Rat(a.num * b.den - b.num * a.den, a.den * b.den)
RatLeq(a, b) == a.num * b.den <= b.num * a.den
RatLess(a, b) == a.num * b.den < b.num * a.den
RatMul(a, b) == Rat(a.num * b.num, a.den * b.den)

\* a / b for b > 0
RatDiv(a, b) == Rat(a.num * b.den, a.den * b.num)

----------------------------------------------------------------------------
(* f64, the IEEE 754 double the program computes with: the sign, a          *)
(* mantissa of 53 bits and an exponent, the value being m * 2^e; zero has   *)
(* no mantissa.  The arithmetic is exact on naturals of any size followed   *)
(* by the rounding to the nearest double, ties to the even mantissa.        *)
(* Doubles too small or too large for that form do not arise here.          *)

\* a natural of any size: its digits in base 2^15, the lowest first, the
\* highest not 0; the empty sequence is 0
LimbBits == 15
LimbBase == 2 ^ LimbBits

Limb(x, i) == IF i <= Len(x) THEN x[i] ELSE 0

RECURSIVE BigStrip(_)
BigStrip(x) ==
    IF x = <<>> THEN x
    ELSE IF x[Len(x)] = 0 THEN BigStrip(SubSeq(x, 1, Len(x) - 1))
    ELSE x

RECURSIVE BigOf(_)
BigOf(n) ==
    IF n = 0 THEN <<>> ELSE <<n % LimbBase>> \o BigOf(n \div LimbBase)

\* x * LimbBase^n
BigShiftLimbs(x, n) == IF x = <<>> THEN x ELSE [i \in 1 .. n |-> 0] \o x

RECURSIVE BigAddFrom(_, _, _, _)
BigAddFrom(x, y, i, carry) ==
    IF i > Len(x) /\ i > Len(y)
    THEN IF carry = 0 THEN <<>> ELSE <<carry>>
    ELSE LET s == Limb(x, i) + Limb(y, i) + carry
         IN  <<s % LimbBase>> \o BigAddFrom(x, y, i + 1, s \div LimbBase)

BigAdd(x, y) == BigAddFrom(x, y, 1, 0)

\* x - y for x >= y
RECURSIVE BigSubFrom(_, _, _, _)
BigSubFrom(x, y, i, borrow) ==
    IF i > Len(x) THEN <<>>
    ELSE LET d == Limb(x, i) - Limb(y, i) - borrow
         IN  IF d < 0
             THEN <<d + LimbBase>> \o BigSubFrom(x, y, i + 1, 1)
             ELSE <<d>> \o BigSubFrom(x, y, i + 1, 0)

BigSub(x, y) == BigStrip(BigSubFrom(x, y, 1, 0))

\* -1, 0 or 1 as x is below, equal to or above y
RECURSIVE BigCmpFrom(_, _, _)
BigCmpFrom(x, y, i) ==
    IF i = 0 THEN 0
    ELSE IF x[i] < y[i] THEN 0 - 1
    ELSE IF x[i] > y[i] THEN 1
    ELSE BigCmpFrom(x, y, i - 1)

BigCmp(x, y) ==
    IF Len(x) < Len(y) THEN 0 - 1
    ELSE IF Len(x) > Len(y) THEN 1
    ELSE BigCmpFrom(x, y, Len(x))

\* x * k for a digit k
RECURSIVE BigMulSmallFrom(_, _, _, _)
BigMulSmallFrom(x, k, i, carry) ==
    IF i > Len(x)
    THEN IF carry = 0 THEN <<>> ELSE <<carry>>
    ELSE LET p == x[i] * k + carry
         IN  <<p % LimbBase>> \o BigMulSmallFrom(x, k, i + 1, p \div LimbBase)

BigMulSmall(x, k) == IF k = 0 THEN <<>> ELSE BigMulSmallFrom(x, k, 1, 0)

RECURSIVE BigMul(_, _)
BigMul(x, y) ==
    IF y = <<>> THEN <<>>
    ELSE BigAdd(BigMulSmall(x, Head(y)), BigShiftLimbs(BigMul(x, Tail(y)), 1))

\* x divided by a digit k > 0: the quotient's digits from i down, and the
\* remainder
RECURSIVE BigDivSmallFrom(_, _, _, _)
BigDivSmallFrom(x, k, i, rem) ==
    IF i = 0 THEN [q |-> <<>>, r |-> rem]
    ELSE LET n == rem * LimbBase + x[i]
             rest == BigDivSmallFrom(x, k, i - 1, n % k)
         IN  [q |-> rest.q \o <<n \div k>>, r |-> rest.r]

BigQuotient(d) == [q |-> BigStrip(d.q), r |-> d.r]

BigDivSmall(x, k) == BigQuotient(BigDivSmallFrom(x, k, Len(x), 0))

\* x * 2^s
BigShl(x, s) ==
    BigShiftLimbs(BigMulSmall(x, 2 ^ (s % LimbBits)), s \div LimbBits)

\* x divided by 2^s, the first limbs digits of x dropped whole and d the
\* rest of x divided: the quotient, and whether a remainder is left
BigShrOf(x, limbs, d) ==
    [q |-> d.q, sticky |-> d.r # 0 \/ \E i \in 1 .. limbs : x[i] # 0]

BigShrLimbs(x, s, limbs) ==
    BigShrOf(x, limbs,
             BigDivSmall(SubSeq(x, limbs + 1, Len(x)), 2 ^ (s % LimbBits)))

BigShr(x, s) ==
    BigShrLimbs(x, s, IF s \div LimbBits < Len(x) THEN s \div LimbBits
                      ELSE Len(x))

\* the number of bits of a digit
RECURSIVE LimbBitLength(_)
LimbBitLength(v) == IF v = 0 THEN 0 ELSE 1 + LimbBitLength(v \div 2)

\* the number of bits of x
BigBitLength(x) ==
    IF x = <<>> THEN 0
    ELSE LimbBits * (Len(x) - 1) + LimbBitLength(x[Len(x)])

MantissaBits == 53

F64Zero == [kind |-> "finite", neg |-> FALSE, m |-> <<>>, e |-> 0]

\* f64::NEG_INFINITY
NegInfinity == [kind |-> "neg_infinity", neg |-> TRUE, m |-> <<>>, e |-> 0]

\* a mantissa that the rounding up has made longer than 53 bits loses its
\* last bit, a 0
F64Carried(neg, rounded, e) ==
    IF BigBitLength(rounded) > MantissaBits
    THEN [kind |-> "finite", neg |-> neg,
          m |-> BigDivSmall(rounded, 2).q, e |-> e + 1]
    ELSE [kind |-> "finite", neg |-> neg, m |-> rounded, e |-> e]

\* half.q the 53 highest bits of a mantissa and half.r the bit after them,
\* sticky whether a lower bit is set: to the nearest, ties to even
F64RoundHalf(neg, half, sticky, e) ==
    F64Carried(neg,
               IF half.r = 1 /\ (sticky \/ half.q[1] % 2 = 1)
               THEN BigAdd(half.q, <<1>>) ELSE half.q,
               e)

F64RoundKept(neg, kept, e) ==
    F64RoundHalf(neg, BigDivSmall(kept.q, 2), kept.sticky, e)

F64RoundBits(neg, m, e, bits) ==
    IF bits <= MantissaBits
    THEN [kind |-> "finite", neg |-> neg,
          m |-> BigShl(m, MantissaBits - bits),
          e |-> e - (MantissaBits - bits)]
    ELSE F64RoundKept(neg, BigShr(m, bits - MantissaBits - 1),
                      e + (bits - MantissaBits))

\* the double nearest to m * 2^e, with the sign
F64Round(neg, m, e) ==
    IF m = <<>> THEN F64Zero ELSE F64RoundBits(neg, m, e, BigBitLength(m))

\* `n as f64` for a usize n
F64OfInt(n) == F64Round(FALSE, BigOf(n), 0)

F64Neg(a) == IF a.m = <<>> THEN a ELSE [a EXCEPT !.neg = ~a.neg]

\* one digit of the long division: the largest q with d * q <= n, found
\* from an estimate that is not below it, and the remainder n - d * q
BigDigit(n, q, product) == [q |-> q, r |-> BigSub(n, product)]

RECURSIVE BigFitDigit(_, _, _)
BigFitDigit(n, d, q) ==
    IF BigCmp(BigMulSmall(d, q), n) <= 0
    THEN BigDigit(n, q, BigMulSmall(d, q))
    ELSE BigFitDigit(n, d, q - 1)

BigEstimate(n, d) == (Limb(n, 5) * LimbBase + Limb(n, 4)) \div d[4]

BigNextDigit(n, d) ==
    BigFitDigit(n, d, IF BigEstimate(n, d) < LimbBase THEN BigEstimate(n, d)
                      ELSE LimbBase - 1)

BigWithDigit(rest, q) == [q |-> rest.q \o <<q>>, r |-> rest.r]

\* the first count digits of r / d past the point, for r < d and d of 4
\* digits, the highest of them 2^14 or more; and the remainder
RECURSIVE BigDivDigits(_, _, _)
BigDivFrom(digit, d, count) ==
    BigWithDigit(BigDivDigits(digit.r, d, count - 1), digit.q)

BigDivDigits(r, d, count) ==
    IF count = 0 THEN [q |-> <<>>, r |-> r]
    ELSE IF r = <<>> THEN [q |-> [i \in 1 .. count |-> 0], r |-> r]
    ELSE BigDivFrom(BigNextDigit(BigShiftLimbs(r, 1), d), d, count)

\* the double nearest to the quotient of the digits whole and digits.q,
\* with a lowest digit that tells whether a remainder digits.r is left
F64RoundDigits(neg, digits, whole, e) ==
    F64Round(neg,
             BigStrip(<<IF digits.r = <<>> THEN 0 ELSE 1>>
                      \o digits.q \o <<whole>>),
             e)

F64Quotient(neg, n, d, whole, e) ==
    F64RoundDigits(neg,
                   BigDivDigits(IF whole = 1 THEN BigSub(n, d) ELSE n, d, 4),
                   whole, e)

\* n / d for mantissas shifted to 60 bits: n / d is in (1/2, 2)
F64DivAligned(neg, n, d, e) ==
    F64Quotient(neg, n, d, IF BigCmp(n, d) >= 0 THEN 1 ELSE 0, e)

\* a / b for doubles, b not 0
F64Div(a, b) ==
    IF a.m = <<>> THEN F64Zero
    ELSE F64DivAligned(a.neg # b.neg, BigMulSmall(a.m, 2 ^ 7),
                       BigMulSmall(b.m, 2 ^ 7),
                       a.e - b.e - 5 * LimbBits)

F64Mul(a, b) ==
    IF a.m = <<>> \/ b.m = <<>> THEN F64Zero
    ELSE F64Round(a.neg # b.neg, BigMul(a.m, b.m), a.e + b.e)

\* -1, 0 or 1 as |a| is below, equal to or above |b|
F64CmpAbs(a, b) ==
    IF a.m = <<>> THEN (IF b.m = <<>> THEN 0 ELSE 0 - 1)
    ELSE IF b.m = <<>> THEN 1
    ELSE IF a.e < b.e THEN 0 - 1
    ELSE IF a.e > b.e THEN 1
    ELSE BigCmp(a.m, b.m)

\* partial_cmp(): -1, 0 or 1
F64Cmp(a, b) ==
    IF a.kind = "neg_infinity"
    THEN (IF b.kind = "neg_infinity" THEN 0 ELSE 0 - 1)
    ELSE IF b.kind = "neg_infinity" THEN 1
    ELSE IF a.neg /\ b.neg THEN F64CmpAbs(b, a)
    ELSE IF a.neg THEN 0 - 1
    ELSE IF b.neg THEN 1
    ELSE F64CmpAbs(a, b)

F64Less(a, b) == F64Cmp(a, b) < 0
F64Leq(a, b) == F64Cmp(a, b) <= 0

\* hi + lo for x * 2^lo.e the magnitude of hi
F64AddAligned(hi, lo, x) ==
    F64Round(IF hi.neg = lo.neg \/ BigCmp(x, lo.m) >= 0 THEN hi.neg
             ELSE lo.neg,
             IF hi.neg = lo.neg THEN BigAdd(x, lo.m)
             ELSE IF BigCmp(x, lo.m) >= 0 THEN BigSub(x, lo.m)
             ELSE BigSub(lo.m, x),
             lo.e)

\* hi + lo for hi.e >= lo.e: lo counts in full while it can reach the
\* rounding of the sum
F64AddOrdered(hi, lo) ==
    IF hi.e - lo.e > MantissaBits + 2 THEN hi
    ELSE F64AddAligned(hi, lo, BigShl(hi.m, hi.e - lo.e))

\* a + b for doubles
F64Add(a, b) ==
    IF a.m = <<>> THEN b
    ELSE IF b.m = <<>> THEN a
    ELSE IF a.e >= b.e THEN F64AddOrdered(a, b)
    ELSE F64AddOrdered(b, a)

F64Sub(a, b) == F64Add(a, F64Neg(b))

\* f64::max
F64Max(a, b) == IF F64Less(a, b) THEN b ELSE a

\* the double nearest to the fraction n / d, d > 0: the literal 0.4 is
\* F64Ratio(4, 10)
F64Signed(neg, a) == IF neg THEN F64Neg(a) ELSE a

F64Ratio(n, d) ==
    F64Signed(n < 0, F64Div(F64OfInt(IF n < 0 THEN 0 - n ELSE n),
                            F64OfInt(d)))

F64One == F64OfInt(1)
F64Hundred == F64OfInt(100)

\* the double of a decimal literal: the one nearest to the fraction
AsF64(r) == F64Ratio(r.num, r.den)

\* |x - n / d| * d * 2^k for a double x and the fraction n / d, d > 0, with
\* k not below -x.e
F64Distance(x, n, d, k) ==
    LET scaled == BigShl(BigMul(x.m, BigOf(d)), x.e + k)
        target == BigShl(BigOf(Abs(n)), k)
    IN  IF x.m # <<>> /\ n # 0 /\ x.neg # (n < 0)
        THEN BigAdd(scaled, target)
        ELSE IF BigCmp(scaled, target) >= 0 THEN BigSub(scaled, target)
        ELSE BigSub(target, scaled)

\* x is a double nearest to n / d: it is no further from the fraction than
\* half the step between x and the next double
F64Nearest(x, n, d) ==
    IF x.m = <<>> THEN n = 0
    ELSE LET k == IF x.e < 0 THEN 0 - x.e ELSE 0
         IN  BigCmp(BigMulSmall(F64Distance(x, n, d, k), 2),
                    BigShl(BigOf(d), x.e + k)) <= 0

\* x is within 2^-bits of n / d
F64Within(x, n, d, bits) ==
    LET k == IF 0 - x.e > bits THEN 0 - x.e ELSE bits
    IN  BigCmp(F64Distance(x, n, d, k), BigShl(BigOf(d), k - bits)) <= 0

----------------------------------------------------------------------------
(* ChampionStats and ChampionStatsTracker, src/analysis/champion_stats.rs *)

\* ChampionStatsTracker::new(): no champion has a stat
EmptyStats == [name \in {} |-> 0]

\* ChampionStats::new(name)
NewChampionStats(name) ==
    [name |-> name, times_faced |-> 0, wins_against |-> 0,
     recency_score |-> F64Zero]

\* mutant: a champion never faced counts as always beaten
WinRateDefaultOne(stat) ==
    IF stat.times_faced = 0 THEN F64One
    ELSE F64Div(F64OfInt(stat.wins_against), F64OfInt(stat.times_faced))

\* AllyAnalysis::new(), src/analysis/recommender.rs
AllyAnalysisNew(champion_name, times_played_together, wins_together) ==
    [champion_name |-> champion_name,
     times_played_together |-> times_played_together,
     wins_together |-> wins_together,
     win_rate |-> IF times_played_together = 0 THEN F64Zero
                  ELSE F64Div(F64OfInt(wins_together),
                              F64OfInt(times_played_together))]

\* ChampionStats::win_rate()
WinRate(stat) ==
    IF stat.times_faced = 0 THEN F64Zero
    ELSE F64Div(F64OfInt(stat.wins_against), F64OfInt(stat.times_faced))

\* ChampionStats::frequency(): a percentage
Frequency(stat, total_games) ==
    IF total_games = 0 THEN F64Zero
    ELSE F64Mul(F64Div(F64OfInt(stat.times_faced), F64OfInt(total_games)),
                F64Hundred)

\* the literals 0.4, 0.5 and 0.1 of calculate_score(): the doubles nearest
\* to the decimals
FrequencyWeight == F64Ratio(4, 10)
WinRateWeight == F64Ratio(5, 10)
RecencyScoreWeight == F64Ratio(1, 10)

\* mutant: the weights of frequency and win rate are exchanged
CalculateScoreSwapped(stat, total_games, max_recency) ==
    LET frequency == F64Div(Frequency(stat, total_games), F64Hundred)
        win_rate == WinRate(stat)
        recency_normalized ==
            IF F64Less(F64Zero, max_recency)
            THEN F64Div(stat.recency_score, max_recency)
            ELSE F64Zero
    IN  F64Add(F64Add(F64Mul(WinRateWeight, frequency),
                      F64Mul(FrequencyWeight, F64Sub(F64One, win_rate))),
               F64Mul(RecencyScoreWeight, recency_normalized))

\* BanRecommender::calculate_score(), src/analysis/recommender.rs:
\* (0.4 * frequency) + (0.5 * (1.0 - win_rate)) + (0.1 * recency_normalized),
\* each operation rounded as f64 rounds it
CalculateScore(stat, total_games, max_recency) ==
    LET frequency == F64Div(Frequency(stat, total_games), F64Hundred)
        win_rate == WinRate(stat)
        recency_normalized ==
            IF F64Less(F64Zero, max_recency)
            THEN F64Div(stat.recency_score, max_recency)
            ELSE F64Zero
    IN  F64Add(F64Add(F64Mul(FrequencyWeight, frequency),
                      F64Mul(WinRateWeight, F64Sub(F64One, win_rate))),
               F64Mul(RecencyScoreWeight, recency_normalized))

\* the fold of lines 87-90: the largest recency_score, from NEG_INFINITY
RECURSIVE MaxRecency(_)
MaxRecency(stats) ==
    IF stats = <<>> THEN NegInfinity
    ELSE F64Max(MaxRecency(SubSeq(stats, 1, Len(stats) - 1)),
                stats[Len(stats)].recency_score)

\* BanRecommendation::new() as lines 94-105 call it
Recommendation(stat, total_games, max_recency) ==
    [champion_name |-> stat.name,
     score |-> CalculateScore(stat, total_games, max_recency),
     frequency |-> Frequency(stat, total_games),
     win_rate |-> WinRate(stat),
     times_faced |-> stat.times_faced]

\* mutant: an entry goes in front of the entries of equal score
RECURSIVE InsertByScoreFirst(_, _)
InsertByScoreFirst(sorted, r) ==
    IF sorted = <<>> THEN <<r>>
    ELSE IF F64Less(r.score, Head(sorted).score)
         THEN <<Head(sorted)>> \o InsertByScoreFirst(Tail(sorted), r)
         ELSE <<r>> \o sorted

\* one insertion of the stable sort of line 108, b.score against a.score:
\* r goes after every entry whose score is greater or equal
RECURSIVE InsertByScore(_, _)
InsertByScore(sorted, r) ==
    IF sorted = <<>> THEN <<r>>
    ELSE IF F64Leq(r.score, Head(sorted).score)
         THEN <<Head(sorted)>> \o InsertByScore(Tail(sorted), r)
         ELSE <<r>> \o sorted

RECURSIVE SortByScore(_)
SortByScore(rs) ==
    IF rs = <<>> THEN <<>>
    ELSE InsertByScore(SortByScore(SubSeq(rs, 1, Len(rs) - 1)), rs[Len(rs)])

\* Vec::truncate(len): the first len elements, all of them when there are
\* fewer
Truncate(v, len) == SubSeq(v, 1, IF len < Len(v) THEN len ELSE Len(v))

\* lines 92-106: one entry for each stat, in the order of the stats
Recommendations(stats, total_games, max_recency) ==
    [i \in DOMAIN stats |->
        Recommendation(stats[i], total_games, max_recency)]

\* mutant: the list is truncated without being sorted
GetRecommendationsUnsorted(stats, total_games, top_n) ==
    Truncate(Recommendations(stats, total_games, MaxRecency(stats)), top_n)

\* BanRecommender::get_recommendations(): the entries scored with the
\* largest recency_score, sorted and truncated
GetRecommendations(stats, total_games, top_n) ==
    Truncate(SortByScore(Recommendations(stats, total_games,
                                         MaxRecency(stats))),
             top_n)

\* one insertion of the stable sort of line 131, a.win_rate against
\* b.win_rate: r goes after every entry whose win rate is less or equal
RECURSIVE InsertByWinRate(_, _)
InsertByWinRate(sorted, r) ==
    IF sorted = <<>> THEN <<r>>
    ELSE IF F64Leq(Head(sorted).win_rate, r.win_rate)
         THEN <<Head(sorted)>> \o InsertByWinRate(Tail(sorted), r)
         ELSE <<r>> \o sorted

RECURSIVE SortByWinRate(_)
SortByWinRate(rs) ==
    IF rs = <<>> THEN <<>>
    ELSE InsertByWinRate(SortByWinRate(SubSeq(rs, 1, Len(rs) - 1)),
                         rs[Len(rs)])

\* mutant: the filter on the number of games is left out
AnalyzeAlliesUnfiltered(ally_stats, min_games_together) ==
    SortByWinRate([i \in DOMAIN ally_stats |->
        AllyAnalysisNew(ally_stats[i].name, ally_stats[i].times_faced,
                        ally_stats[i].wins_against)])

\* BanRecommender::analyze_allies()
AnalyzeAllies(ally_stats, min_games_together) ==
    LET kept == SelectSeq(ally_stats,
                    LAMBDA st : st.times_faced >= min_games_together)
    IN  SortByWinRate([i \in DOMAIN kept |->
            AllyAnalysisNew(kept[i].name, kept[i].times_faced,
                            kept[i].wins_against)])

\* mutant: every encounter counts as a win
AddEncounterAlwaysWon(stats, champion_name, won_against, recency_weight) ==
    LET entry == IF champion_name \in DOMAIN stats
                 THEN stats[champion_name]
                 ELSE NewChampionStats(champion_name)
        updated == [entry EXCEPT
                      !.times_faced = @ + 1,
                      !.wins_against = @ + 1,
                      !.recency_score = F64Add(@, recency_weight)]
    IN  [n \in DOMAIN stats \cup {champion_name} |->
            IF n = champion_name THEN updated ELSE stats[n]]

\* mutant: the map is emptied before the entry is looked up
AddEncounterForgetting(stats, champion_name, won_against, recency_weight) ==
    [n \in {champion_name} |->
        [name |-> n, times_faced |-> 1,
         wins_against |-> IF won_against THEN 1 ELSE 0,
         recency_score |-> recency_weight]]

\* ChampionStatsTracker::add_champion_encounter(), on the map `stats`;
\* `entry.recency_score += recency_weight` is the addition of f64
AddChampionEncounter(stats, champion_name, won_against, recency_weight) ==
    LET entry == IF champion_name \in DOMAIN stats
                 THEN stats[champion_name]
                 ELSE NewChampionStats(champion_name)
        updated == [entry EXCEPT
                      !.times_faced = @ + 1,
                      !.wins_against = IF won_against THEN @ + 1 ELSE @,
                      !.recency_score = F64Add(@, recency_weight)]
    IN  [n \in DOMAIN stats \cup {champion_name} |->
            IF n = champion_name THEN updated ELSE stats[n]]

\* ChampionStatsTracker::get_stats(): the values of the map, in no order
GetStats(stats) == {stats[n] : n \in DOMAIN stats}

\* ChampionStatsTracker::add_ally_encounter(), which main.rs:272 calls: the
\* same algorithm on the tracker's second map, the ally stats
AddAllyEncounter(ally_stats, champion_name, won, recency_weight) ==
    AddChampionEncounter(ally_stats, champion_name, won, recency_weight)

\* ChampionStatsTracker::get_ally_stats(), which main.rs:335 calls
GetAllyStats(ally_stats) == GetStats(ally_stats)

----------------------------------------------------------------------------
(* Program constants *)

MAX_REQUESTS_PER_2MIN == 100
MAX_REQUESTS_PER_SEC == 20
WINDOW_2MIN_SECS == 120
WINDOW_1SEC_SECS == 1
MATCH_LIMIT == 100
DEFAULT_TEAM_ID == 100
PUUID_SHOWN == 8
MIN_ALLY_GAMES == 1
MAX_RETRIES == 3
REQUEST_DELAY_MS == 150
RETRY_WAIT_MS == 2000

(* Bounds of the model *)

MaxSteps == 3        \* record_request() calls in one behaviour of the tracker
MaxMatches == 3      \* largest --matches value tried
MaxOffset == 1       \* largest --offset value tried
MaxBatch == 2        \* longest batch given to add_matches()
MaxCached == 2       \* longest match list found in a cache file
NearMax == 2         \* persisted counts start this far below the maximum
MaxEncounters == 3   \* encounters recorded in one behaviour of the tracker
MaxFaced == 3        \* largest count tried in a ChampionStats
MaxTotal == 2        \* largest total_games tried, the example's aside
MaxStats == 3        \* longest list of stats ranked
MaxTopN == 4         \* largest top_n tried
MaxMinGames == 2     \* largest min_games_together tried

Player == "a#1"

\* The instants at which the clock is read.  Relative to a 1-second window
\* started at 0 and a 2-minute window started at EarlyStart they give an
\* elapsed time within the window, past it by a fraction of a second, and
\* past it by a whole second.
EarlyStart == 0 - 2000
Instants ==
    {0, 1000, 1500, 2000} \cup {EarlyStart + d : d \in {120000, 120500, 121000}}

Min(a, b) == IF a <= b THEN a ELSE b

\* chrono::Duration::num_seconds(): whole seconds, truncated toward zero
NumSeconds(ms) == IF ms >= 0 THEN ms \div 1000 ELSE -((-ms) \div 1000)

\* An unsigned machine word (u32, u64) of width w: the small value v, or
\* 2^w - v when the value is counted down from the top of the range.
Word(v) == [from_top |-> FALSE, v |-> v]
WordFromTop(v) == [from_top |-> TRUE, v |-> v]

\* a - b on unsigned words in a build with overflow checks: the difference,
\* or the panic "attempt to subtract with overflow"
Panic == [panicked |-> TRUE]
CheckedSub(a, b) == IF a >= b THEN Word(a - b) ELSE Panic

\* a - b in a build without overflow checks: the difference modulo 2^w
WrappingSub(a, b) == IF a >= b THEN Word(a - b) ELSE WordFromTop(b - a)

----------------------------------------------------------------------------
(* RequestLog, src/rate_limit.rs *)

NewLog(player, t) ==
    [player |-> player,
     requests_per_2min |-> 0,
     requests_per_sec |-> 0,
     last_request |-> t,
     window_2min_start |-> t,
     window_1sec_start |-> t]

AbsentFile == [kind |-> "absent"]
CorruptFile == [kind |-> "corrupt"]
LogFileOf(l) == [kind |-> "log", log |-> l]

\* What fs::write(path, json) of a save() does: the file is written whole;
\* or File::create fails and the path holds what it held; or the file is
\* created, resp. truncated, and the write fails, which leaves a file that
\* no load() can parse.
SaveOutcomes == {"written", "refused", "truncated"}

Saved(file, new_file, outcome) ==
    CASE outcome = "written" -> new_file
      [] outcome = "truncated" -> CorruptFile
      [] OTHER -> file

\* the two window resets of load(), in the order of the code
ResetWindows(l, t) ==
    LET a == IF NumSeconds(t - l.window_2min_start) > WINDOW_2MIN_SECS
             THEN [l EXCEPT !.requests_per_2min = 0, !.window_2min_start = t]
             ELSE l
    IN  IF NumSeconds(t - a.window_1sec_start) > WINDOW_1SEC_SECS
        THEN [a EXCEPT !.requests_per_sec = 0, !.window_1sec_start = t]
        ELSE a

\* RequestLog::load: [ok, log]; an unreadable file is a fresh log, an
\* unparsable one is Err(JsonError)
LoadLog(file, player, t) ==
    CASE file.kind = "absent" -> [ok |-> TRUE, log |-> NewLog(player, t)]
      [] file.kind = "corrupt" -> [ok |-> FALSE, log |-> NewLog(player, t)]
      [] OTHER -> [ok |-> TRUE, log |-> ResetWindows(file.log, t)]

\* mutant: one window below its maximum is enough
CanMakeRequestEither(l) ==
    \/ l.requests_per_2min < MAX_REQUESTS_PER_2MIN
    \/ l.requests_per_sec < MAX_REQUESTS_PER_SEC

CanMakeRequest(l) ==
    /\ l.requests_per_2min < MAX_REQUESTS_PER_2MIN
    /\ l.requests_per_sec < MAX_REQUESTS_PER_SEC

\* mutant: recording a request also reopens the 1-second window
RecordRequestReopening(l, t) ==
    [l EXCEPT !.requests_per_2min = @ + 1,
              !.requests_per_sec = @ + 1,
              !.last_request = t,
              !.window_1sec_start = t]

RecordRequest(l, t) ==
    [l EXCEPT !.requests_per_2min = @ + 1,
              !.requests_per_sec = @ + 1,
              !.last_request = t]

\* RequestLog::get_remaining() in a build with overflow checks
GetRemainingChecked(l) ==
    LET rem_2min == CheckedSub(MAX_REQUESTS_PER_2MIN, l.requests_per_2min)
        rem_sec == CheckedSub(MAX_REQUESTS_PER_SEC, l.requests_per_sec)
    IN  IF Panic \in {rem_2min, rem_sec} THEN Panic
        ELSE [panicked |-> FALSE, rem_2min |-> rem_2min, rem_sec |-> rem_sec]

\* RequestLog::get_remaining() in a build without overflow checks
GetRemainingWrapping(l) ==
    [panicked |-> FALSE,
     rem_2min |-> WrappingSub(MAX_REQUESTS_PER_2MIN, l.requests_per_2min),
     rem_sec |-> WrappingSub(MAX_REQUESTS_PER_SEC, l.requests_per_sec)]

\* RequestLog::get_remaining(): what the two builds return
GetRemaining(l) == {GetRemainingChecked(l), GetRemainingWrapping(l)}

\* RequestLog::get_reset_times(), in milliseconds
GetResetTimes(l) ==
    <<l.window_2min_start + WINDOW_2MIN_SECS * 1000,
      l.window_1sec_start + WINDOW_1SEC_SECS * 1000>>

\* RequestLog::display_status(): the values it computes from the log, and
\* the log it leaves
DisplayStatus(l) ==
    {[op |-> "display_status",
      remaining |-> r,
      reset_times |-> GetResetTimes(l),
      log |-> l] : r \in GetRemaining(l)}

\* Budget files a previous invocation can have left behind at time 0: both
\* windows opened together (equal counts), or the 2-minute window opened
\* earlier, nearly or wholly used, and the 1-second window reopened by a
\* later load.
PersistedLogs ==
    {[player |-> Player,
      requests_per_2min |-> MAX_REQUESTS_PER_SEC - NearMax,
      requests_per_sec |-> MAX_REQUESTS_PER_SEC - NearMax,
      last_request |-> 0,
      window_2min_start |-> 0,
      window_1sec_start |-> 0]}
    \cup
    {[player |-> Player,
      requests_per_2min |-> a,
      requests_per_sec |-> b,
      last_request |-> 0,
      window_2min_start |-> EarlyStart,
      window_1sec_start |-> 0] :
        a \in {MAX_REQUESTS_PER_2MIN - NearMax, MAX_REQUESTS_PER_2MIN,
               MAX_REQUESTS_PER_2MIN + 1},
        b \in {1, MAX_REQUESTS_PER_SEC - NearMax}}

InitLogFiles == {AbsentFile} \cup {LogFileOf(l) : l \in PersistedLogs}

----------------------------------------------------------------------------
(* The clock *)

Tick ==
    /\ \E t \in Instants : t > now /\ now' = t
    /\ lastStep' = "tick"
    /\ UNCHANGED <<budgetVars, cacheVars, runVars>>
    /\ UNCHANGED <<calls, records, saves, lastBatch, startUnique, steps>>
    /\ UNCHANGED <<outVars, trackVars>>
    /\ UNCHANGED analysis

----------------------------------------------------------------------------
(* SpecBudget: the RequestLog operations, called in any order *)

NoCache == [kind |-> "none"]
NoArgs == [refresh |-> FALSE, matches |-> 0, offset |-> 0]

IdleRun ==
    /\ pc = "idle"
    /\ args = NoArgs
    /\ match_ids = <<>>
    /\ idx = 0
    /\ match_history = <<>>
    /\ result = "none"

NoMatch == [participants |-> <<>>]
NoAnalysis == [op |-> "none"]

NoOutput ==
    /\ shown = {}
    /\ failedSaves = 0

NoEncounters ==
    /\ tracker = EmptyStats
    /\ ally_tracker = EmptyStats
    /\ encounters = <<>>
    /\ fetched = NoMatch
    /\ analysis = NoAnalysis

NoHistory ==
    /\ calls = 0
    /\ records = 0
    /\ saves = 0
    /\ lastStep = "init"
    /\ lastBatch = <<>>
    /\ startUnique = TRUE
    /\ steps = 0
    /\ NoOutput
    /\ NoEncounters

InitBudget ==
    /\ now = 0
    /\ logFile \in InitLogFiles
    /\ log = LoadLog(logFile, Player, now).log
    /\ cache = NoCache
    /\ cacheFile = AbsentFile
    /\ IdleRun
    /\ NoHistory

\* RequestLog::load(player) in a later invocation
BudgetLoad ==
    /\ LoadLog(logFile, Player, now).ok
    /\ log' = LoadLog(logFile, Player, now).log
    /\ lastStep' = "load"
    /\ UNCHANGED <<now, logFile, cacheVars, runVars>>
    /\ UNCHANGED <<calls, records, saves, lastBatch, startUnique, steps>>
    /\ UNCHANGED <<outVars, trackVars>>
    /\ UNCHANGED analysis

BudgetRecord ==
    /\ steps < MaxSteps
    /\ log' = RecordRequest(log, now)
    /\ lastStep' = "record"
    /\ steps' = steps + 1
    /\ UNCHANGED <<now, logFile, cacheVars, runVars>>
    /\ UNCHANGED <<calls, records, saves, lastBatch, startUnique>>
    /\ UNCHANGED <<outVars, trackVars>>
    /\ UNCHANGED analysis

\* RequestLog::save()
BudgetSave ==
    /\ \E written \in SaveOutcomes :
          /\ logFile' = Saved(logFile, LogFileOf(log), written)
          /\ lastStep' = IF written = "written" THEN "save" ELSE "save_failed"
    /\ UNCHANGED <<now, log, cacheVars, runVars>>
    /\ UNCHANGED <<calls, records, saves, lastBatch, startUnique, steps>>
    /\ UNCHANGED <<outVars, trackVars>>
    /\ UNCHANGED analysis

NextBudget == Tick \/ BudgetLoad \/ BudgetRecord \/ BudgetSave

SpecBudget == InitBudget /\ [][NextBudget]_vars

----------------------------------------------------------------------------
(* MatchCache, src/cache.rs *)

DefaultRegion == "na1"

NsPerMs == 1000 * 1000

\* DateTime<Utc>: an instant of the clock, as the whole milliseconds since
\* the origin and the nanoseconds past them (0 .. 999999)
Instant(ms, ns) == [ms |-> ms, ns |-> ns]

\* the instant at the start of a millisecond
AtMs(ms) == Instant(ms, 0)

\* a >= b of DateTime<Utc>
NotBefore(a, b) == a.ms > b.ms \/ (a.ms = b.ms /\ a.ns >= b.ns)

\* the clock at the instant a, once the time d has passed
Later(a, d) ==
    Instant(a.ms + d.ms + (a.ns + d.ns) \div NsPerMs, (a.ns + d.ns) % NsPerMs)

\* a - b of DateTime<Utc>: a Duration, as whole milliseconds rounded down
\* and the nanoseconds past them
Since(a, b) ==
    IF a.ns >= b.ns THEN [ms |-> a.ms - b.ms, ns |-> a.ns - b.ns]
    ELSE [ms |-> a.ms - b.ms - 1, ns |-> a.ns - b.ns + NsPerMs]

\* chrono::Duration::num_milliseconds(): truncated toward zero
NumMilliseconds(d) == IF d.ms < 0 /\ d.ns > 0 THEN d.ms + 1 ELSE d.ms

\* the Duration d is longer than ms milliseconds
LongerThanMs(d, ms) == d.ms > ms \/ (d.ms = ms /\ d.ns > 0)

\* Option<CachedAccount>: None, and Some(CachedAccount { .. })
NoAccount == [some |-> FALSE]
CachedAccount(puuid, summoner_name, summoner_level, cached_at) ==
    [some |-> TRUE, puuid |-> puuid, summoner_name |-> summoner_name,
     summoner_level |-> summoner_level, cached_at |-> cached_at]

NewCache(player, region, t) ==
    [kind |-> "cache",
     player |-> player,
     region |-> region,
     last_updated |-> t,
     matches |-> <<>>,
     account |-> NoAccount]

\* MatchCache::set_account() when Utc::now() reads t
SetAccount(c, puuid, summoner_name, summoner_level, t) ==
    [c EXCEPT !.account =
        CachedAccount(puuid, summoner_name, summoner_level, t)]

\* MatchCache::get_cached_account()
GetCachedAccount(c) == c.account

CacheFileOf(c) == [kind |-> "cache", cache |-> c]

\* MatchCache::load: an unreadable file is a fresh cache with region "na1",
\* an unparsable one is Err(JsonError)
LoadCache(file, player, t) ==
    CASE file.kind = "absent" ->
            [ok |-> TRUE, cache |-> NewCache(player, DefaultRegion, t)]
      [] file.kind = "corrupt" ->
            [ok |-> FALSE, cache |-> NewCache(player, DefaultRegion, t)]
      [] OTHER -> [ok |-> TRUE, cache |-> file.cache]

IdsOf(ms) == {ms[i].id : i \in DOMAIN ms}

\* mutant: the membership test is dropped and every incoming match is pushed
PushAll(ms, new_matches) == ms \o new_matches

\* the push loop of add_matches(): existing_ids is collected once, before
\* the loop, and not updated by the pushes
PushNew(ms, new_matches) ==
    LET existing_ids == IdsOf(ms)
    IN  ms \o SelectSeq(new_matches, LAMBDA m : m.id \notin existing_ids)

\* one insertion of a stable sort by b.timestamp.cmp(&a.timestamp): m goes
\* after every element whose timestamp is greater or equal
RECURSIVE InsertDesc(_, _)
InsertDesc(sorted, m) ==
    IF sorted = <<>> THEN <<m>>
    ELSE IF NotBefore(Head(sorted).timestamp, m.timestamp)
         THEN <<Head(sorted)>> \o InsertDesc(Tail(sorted), m)
         ELSE <<m>> \o sorted

\* mutant: the list is left in insertion order
Unsorted(ms) == ms

\* Vec::sort_by (stable), newest first
RECURSIVE SortDesc(_)
SortDesc(ms) ==
    IF ms = <<>> THEN <<>>
    ELSE InsertDesc(SortDesc(SubSeq(ms, 1, Len(ms) - 1)), ms[Len(ms)])

\* mutant: an incoming match replaces the cached record of the same id
AddMatchesOverwriting(c, new_matches, t) ==
    [c EXCEPT !.matches =
                SortDesc(SelectSeq(c.matches,
                                   LAMBDA m : m.id \notin IdsOf(new_matches))
                         \o new_matches),
              !.last_updated = t]

AddMatches(c, new_matches, t) ==
    [c EXCEPT !.matches = SortDesc(PushNew(c.matches, new_matches)),
              !.last_updated = t]

GetRecentMatches(c, count) == SubSeq(c.matches, 1, Min(count, Len(c.matches)))

----------------------------------------------------------------------------
(* SpecCache: the MatchCache operations on the cache of one player *)

MatchIds == {"NA1_1", "NA1_2"}
MatchTimes == {AtMs(0), AtMs(1000)}

CachedMatch(id, ts) ==
    [id |-> id, champion |-> "Ahri", won |-> TRUE, enemies |-> <<>>,
     timestamp |-> ts]

CachedMatches == {CachedMatch(id, ts) : id \in MatchIds, ts \in MatchTimes}

SeqsUpTo(S, n) == UNION {[1 .. k -> S] : k \in 0 .. n}

Unique(ms) == \A i, j \in DOMAIN ms : ms[i].id = ms[j].id => i = j

\* cache files as deserialization accepts them: any match list
InitCacheFiles ==
    {AbsentFile} \cup
    {CacheFileOf([NewCache(Player, DefaultRegion, AtMs(0)) EXCEPT !.matches = ms]) :
        ms \in SeqsUpTo(CachedMatches, MaxCached)}

InitCache ==
    /\ now = 0
    /\ cacheFile \in InitCacheFiles
    /\ cache = LoadCache(cacheFile, Player, AtMs(now)).cache
    /\ log = NewLog(Player, now)
    /\ logFile = AbsentFile
    /\ IdleRun
    /\ calls = 0
    /\ records = 0
    /\ saves = 0
    /\ lastStep = "init"
    /\ lastBatch = <<>>
    /\ startUnique = Unique(cache.matches)
    /\ steps = 0
    /\ NoOutput
    /\ NoEncounters

CacheAdd ==
    /\ \E new_matches \in SeqsUpTo(CachedMatches, MaxBatch) :
          /\ cache' = AddMatches(cache, new_matches, AtMs(now))
          /\ lastBatch' = new_matches
          /\ lastStep' = IF lastStep \in {"add", "add_again"}
                             /\ new_matches = lastBatch
                          THEN "add_again" ELSE "add"
    /\ UNCHANGED <<now, cacheFile, budgetVars, runVars>>
    /\ UNCHANGED <<calls, records, saves, startUnique, steps>>
    /\ UNCHANGED <<outVars, trackVars>>
    /\ UNCHANGED analysis

NextCache == CacheAdd

SpecCache == InitCache /\ [][NextCache]_vars

----------------------------------------------------------------------------
(* SpecStale: add_matches(), set_account() and is_stale() on one cache      *)
(* while the clock advances by half minutes                                 *)

MaxHalfMinutes == 12

HalfMinute == 30 * 1000
MsPerMinute == 60 * 1000

\* chrono::Duration::num_minutes(): whole minutes, truncated toward zero
NumMinutes(ms) ==
    IF ms >= 0 THEN ms \div MsPerMinute ELSE -((-ms) \div MsPerMinute)

\* the largest u64 threshold, 2^64 - 1
U64Max == WordFromTop(1)

\* max_age_mins as i64: a value of 2^63 or more wraps to value - 2^64
AsI64(u) == IF u.from_top THEN 0 - u.v ELSE u.v

\* MatchCache::is_stale() when Utc::now() reads t
IsStale(c, max_age_mins, t) ==
    NumMinutes(NumMilliseconds(Since(t, c.last_updated)))
        > AsI64(max_age_mins)

Thresholds == {Word(0), Word(5), Word(6), U64Max}

\* the accounts given to set_account()
Accounts ==
    {[puuid |-> "p-1", summoner_name |-> "Name", summoner_level |-> 30]}

InitStale ==
    /\ now = 0
    /\ cacheFile = AbsentFile
    /\ cache = LoadCache(cacheFile, Player, AtMs(now)).cache
    /\ log = NewLog(Player, now)
    /\ logFile = AbsentFile
    /\ IdleRun
    /\ NoHistory

StaleTick ==
    /\ now < MaxHalfMinutes * HalfMinute
    /\ now' = now + HalfMinute
    /\ lastStep' = "tick"
    /\ UNCHANGED <<budgetVars, cacheVars, runVars>>
    /\ UNCHANGED <<calls, records, saves, lastBatch, startUnique, steps>>
    /\ UNCHANGED <<outVars, trackVars>>
    /\ UNCHANGED analysis

StaleAdd ==
    /\ \E new_matches \in SeqsUpTo({CachedMatch("NA1_1", AtMs(0))}, 1) :
          /\ cache' = AddMatches(cache, new_matches, AtMs(now))
          /\ lastBatch' = new_matches
    /\ lastStep' = "add"
    /\ UNCHANGED <<now, cacheFile, budgetVars, runVars>>
    /\ UNCHANGED <<calls, records, saves, startUnique, steps>>
    /\ UNCHANGED <<outVars, trackVars>>
    /\ UNCHANGED analysis

\* MatchCache::set_account(puuid, summoner_name, summoner_level)
StaleSetAccount ==
    /\ \E a \in Accounts :
          cache' = SetAccount(cache, a.puuid, a.summoner_name,
                              a.summoner_level, AtMs(now))
    /\ lastStep' = "set_account"
    /\ UNCHANGED <<now, cacheFile, budgetVars, runVars>>
    /\ UNCHANGED <<calls, records, saves, lastBatch, startUnique, steps>>
    /\ UNCHANGED <<outVars, trackVars>>
    /\ UNCHANGED analysis

StaleCheck ==
    /\ \E max_age_mins \in Thresholds :
          analysis' = [op |-> "is_stale",
                       cache |-> cache,
                       max_age_mins |-> max_age_mins,
                       elapsed |-> Since(AtMs(now), cache.last_updated),
                       after_add |-> (lastStep = "add"),
                       account |-> GetCachedAccount(cache),
                       result |-> IsStale(cache, max_age_mins, AtMs(now))]
    /\ lastStep' = "is_stale"
    /\ UNCHANGED <<now, budgetVars, cacheVars, runVars>>
    /\ UNCHANGED <<calls, records, saves, lastBatch, startUnique, steps>>
    /\ UNCHANGED <<outVars, trackVars>>

NextStale == StaleTick \/ StaleAdd \/ StaleSetAccount \/ StaleCheck

SpecStale == InitStale /\ [][NextStale]_vars

----------------------------------------------------------------------------
(* SpecTracker: encounters recorded on one tracker, in any order *)

Champions == {"Zed", "Yasuo"}

\* recency weights tried: 0.0, 0.1, 0.2 and 1.0; the sum of 0.1 and 0.2 is
\* rounded, to 0.30000000000000004
Weights == {F64Zero, F64Ratio(1, 10), F64Ratio(1, 5), F64One}

Encounter(ally, name, won, weight) ==
    [ally |-> ally, name |-> name, won |-> won, weight |-> weight]

InitTracker ==
    /\ now = 0
    /\ log = NewLog(Player, now)
    /\ logFile = AbsentFile
    /\ cache = NoCache
    /\ cacheFile = AbsentFile
    /\ IdleRun
    /\ NoHistory

TrackerAdd ==
    /\ Len(encounters) < MaxEncounters
    /\ \E name \in Champions, won \in BOOLEAN, weight \in Weights :
          /\ tracker' = AddChampionEncounter(tracker, name, won, weight)
          /\ encounters' = Append(encounters,
                                  Encounter(FALSE, name, won, weight))
    /\ lastStep' = "encounter"
    /\ UNCHANGED <<now, budgetVars, cacheVars, runVars, outVars, ally_tracker,
                   fetched>>
    /\ UNCHANGED <<calls, records, saves, lastBatch, startUnique, steps>>
    /\ UNCHANGED analysis

TrackerAddAlly ==
    /\ Len(encounters) < MaxEncounters
    /\ \E name \in Champions, won \in BOOLEAN, weight \in Weights :
          /\ ally_tracker' = AddAllyEncounter(ally_tracker, name, won, weight)
          /\ encounters' = Append(encounters,
                                  Encounter(TRUE, name, won, weight))
    /\ lastStep' = "ally_encounter"
    /\ UNCHANGED <<now, budgetVars, cacheVars, runVars, outVars, tracker,
                   fetched>>
    /\ UNCHANGED <<calls, records, saves, lastBatch, startUnique, steps>>
    /\ UNCHANGED analysis

NextTracker == TrackerAdd \/ TrackerAddAlly

SpecTracker == InitTracker /\ [][NextTracker]_vars

----------------------------------------------------------------------------
(* SpecAnalysis: the values derived from one ChampionStats.  The fields of  *)
(* the struct are public, so a stat is any pair of counts.                  *)

\* the stat of the specification's worked example of the score
ExampleStat ==
    [name |-> "Zed", times_faced |-> 5, wins_against |-> 1,
     recency_score |-> AsF64(Rat(4, 5))]

\* recency scores tried, as decimals: 0.0, 0.5, 1.0 and the example's 0.8
RecenciesTried == {Zero, Rat(1, 2), One, Rat(4, 5)}

\* the double that holds each of them
RecencyDoubles == [r \in RecenciesTried |-> AsF64(r)]

\* the decimal a recency score tried was written as
RecencyTried(x) == CHOOSE r \in RecenciesTried : RecencyDoubles[r] = x

StatsTried ==
    {[name |-> name, times_faced |-> t, wins_against |-> w,
      recency_score |-> RecencyDoubles[r]] :
        name \in Champions, t \in 0 .. MaxFaced, w \in 0 .. MaxFaced,
        r \in {Zero, Rat(1, 2), One}}
    \cup {ExampleStat}

\* total_games values tried, the worked example's 20 among them
TotalsTried == 0 .. MaxTotal \cup {20}

\* max_recency values tried: none positive, a fraction, one
MaxRecenciesTried == {Rat(0 - 1, 2), Zero, Rat(1, 2), One}

InitAnalysis ==
    /\ now = 0
    /\ log = NewLog(Player, now)
    /\ logFile = AbsentFile
    /\ cache = NoCache
    /\ cacheFile = AbsentFile
    /\ IdleRun
    /\ calls = 0
    /\ records = 0
    /\ saves = 0
    /\ lastStep = "init"
    /\ lastBatch = <<>>
    /\ startUnique = TRUE
    /\ steps = 0
    /\ NoOutput
    /\ \E stat \in StatsTried : tracker = [n \in {stat.name} |-> stat]
    /\ ally_tracker = EmptyStats
    /\ encounters = <<>>
    /\ fetched = NoMatch
    /\ analysis = NoAnalysis

\* stat.win_rate()
ComputeWinRate ==
    /\ \E name \in DOMAIN tracker :
          analysis' = [op |-> "win_rate",
                       times |-> tracker[name].times_faced,
                       wins |-> tracker[name].wins_against,
                       win_rate |-> WinRate(tracker[name])]
    /\ lastStep' = "win_rate"
    /\ UNCHANGED <<now, budgetVars, cacheVars, runVars, outVars, trackVars>>
    /\ UNCHANGED <<calls, records, saves, lastBatch, startUnique, steps>>

\* AllyAnalysis::new(stat.name, stat.times_faced, stat.wins_against), as
\* analyze_allies() calls it
ComputeAllyAnalysis ==
    /\ \E name \in DOMAIN tracker :
          analysis' = [op |-> "ally_analysis",
                       times |-> tracker[name].times_faced,
                       wins |-> tracker[name].wins_against,
                       win_rate |->
                         AllyAnalysisNew(name, tracker[name].times_faced,
                                         tracker[name].wins_against).win_rate]
    /\ lastStep' = "ally_analysis"
    /\ UNCHANGED <<now, budgetVars, cacheVars, runVars, outVars, trackVars>>
    /\ UNCHANGED <<calls, records, saves, lastBatch, startUnique, steps>>

\* BanRecommender::calculate_score(stat, total_games, max_recency)
ComputeScore ==
    /\ \E name \in DOMAIN tracker, total_games \in TotalsTried,
          max_recency \in MaxRecenciesTried :
          analysis' = [op |-> "score",
                       stat |-> tracker[name],
                       recency |-> RecencyTried(tracker[name].recency_score),
                       total_games |-> total_games,
                       max_recency |-> max_recency,
                       score |-> CalculateScore(tracker[name], total_games,
                                                AsF64(max_recency))]
    /\ lastStep' = "score"
    /\ UNCHANGED <<now, budgetVars, cacheVars, runVars, outVars, trackVars>>
    /\ UNCHANGED <<calls, records, saves, lastBatch, startUnique, steps>>

NextAnalysis == ComputeWinRate \/ ComputeAllyAnalysis \/ ComputeScore

SpecAnalysis == InitAnalysis /\ [][NextAnalysis]_vars

----------------------------------------------------------------------------
(* SpecRanking: one call of get_recommendations() or analyze_allies() on a  *)
(* list of stats, one stat per champion name as get_stats() gives them      *)

\* the names of the stats of a list, in the order of the list
RankedNames == <<"Zed", "Yasuo", "Ahri">>

Shape(times_faced, wins_against, recency_score) ==
    [times_faced |-> times_faced, wins_against |-> wins_against,
     recency_score |-> AsF64(recency_score)]

\* counts and recency scores tried: equal ones rank equal, and with
\* total_games = 1 the scores of the last two are 1.3 and 1.3000000000000003,
\* which would be equal without the rounding of f64
Shapes ==
    {Shape(1, 0, Rat(1, 2)), Shape(1, 1, Rat(1, 2)), Shape(2, 1, One),
     Shape(2, 2, Rat(3, 2)), Shape(2, 0, Zero), Shape(3, 3, Rat(1, 2))}

StatOf(name, shape) ==
    [name |-> name, times_faced |-> shape.times_faced,
     wins_against |-> shape.wins_against,
     recency_score |-> shape.recency_score]

\* the lists of stats ranked: every choice of a shape for each position
StatLists ==
    UNION {{[i \in 1 .. k |-> StatOf(RankedNames[i], shapes[i])] :
               shapes \in [1 .. k -> Shapes]} :
           k \in 0 .. Min(MaxStats, Len(RankedNames))}

InitRanking ==
    /\ now = 0
    /\ log = NewLog(Player, now)
    /\ logFile = AbsentFile
    /\ cache = NoCache
    /\ cacheFile = AbsentFile
    /\ IdleRun
    /\ NoHistory

\* BanRecommender::get_recommendations(stats, total_games, top_n)
RankBans ==
    /\ analysis = NoAnalysis
    /\ \E stats \in StatLists, total_games \in 0 .. MaxTotal,
          top_n \in 0 .. MaxTopN :
          analysis' = [op |-> "recommendations",
                       stats |-> stats,
                       total_games |-> total_games,
                       top_n |-> top_n,
                       result |-> GetRecommendations(stats, total_games,
                                                     top_n)]
    /\ lastStep' = "recommendations"
    /\ UNCHANGED <<now, budgetVars, cacheVars, runVars, outVars, trackVars>>
    /\ UNCHANGED <<calls, records, saves, lastBatch, startUnique, steps>>

\* BanRecommender::analyze_allies(ally_stats, min_games_together)
RankAllies ==
    /\ analysis = NoAnalysis
    /\ \E stats \in StatLists, min_games_together \in 0 .. MaxMinGames :
          analysis' = [op |-> "allies",
                       stats |-> stats,
                       min_games_together |-> min_games_together,
                       result |-> AnalyzeAllies(stats, min_games_together)]
    /\ lastStep' = "allies"
    /\ UNCHANGED <<now, budgetVars, cacheVars, runVars, outVars, trackVars>>
    /\ UNCHANGED <<calls, records, saves, lastBatch, startUnique, steps>>

NextRanking == RankBans \/ RankAllies

SpecRanking == InitRanking /\ [][NextRanking]_vars

----------------------------------------------------------------------------
(* run(), src/main.rs.  One action per client call: the call's outcome and  *)
(* the code that follows it up to the next call.                            *)

ConfigRegion == "euw1"

\* cache files a previous invocation can have left behind
PersistedCaches ==
    {[NewCache(Player, ConfigRegion, AtMs(EarlyStart)) EXCEPT
        !.matches = <<CachedMatch("NA1_1", AtMs(EarlyStart))>>]}

InitRunCacheFiles ==
    {AbsentFile, CorruptFile} \cup {CacheFileOf(c) : c \in PersistedCaches}

\* the command lines tried
ArgsSet ==
    [refresh : BOOLEAN, matches : 1 .. MaxMatches, offset : 0 .. MaxOffset]

\* what get_match_ids() returns: the list of the response body as it is,
\* whatever the count asked for: no id, one, two in either order, or an id
\* twice
IdLists ==
    {<<>>, <<"NA1_1">>, <<"NA1_2">>, <<"NA1_2", "NA1_1">>,
     <<"NA1_1", "NA1_2">>, <<"NA1_1", "NA1_1">>, <<"NA1_2", "NA1_2">>}

\* account.puuid of the analysed player, and a puuid of fewer than 8 bytes
PlayerPuuid == "puuid-me"
ShortPuuid == "me"
Puuids == {PlayerPuuid, ShortPuuid}

\* the time execute_request() takes at least: the delay before the request
CallTime == REQUEST_DELAY_MS

\* the same, and with the wait that follows a first answer 429; the answers
\* 429 are tried on the call that lists the match ids
RetriedCallTimes == {CallTime, CallTime + RETRY_WAIT_MS}

\* ParticipantDto, the fields run() reads
Participant(puuid, champion_name, team_id, win) ==
    [puuid |-> puuid, champion_name |-> champion_name, team_id |-> team_id,
     win |-> win]

\* matches as get_match() reports them: a win with the same champion on
\* both teams, a loss on the other side, and a match without the analysed
\* player (nor, its two participants being on the other team, a team-mate)
MatchDatas ==
    {[participants |-> <<Participant(PlayerPuuid, "Ahri", 100, TRUE),
                         Participant("p2", "Zed", 100, TRUE),
                         Participant("p3", "Zed", 200, FALSE)>>],
     [participants |-> <<Participant("p3", "Zed", 100, TRUE),
                         Participant(PlayerPuuid, "Ahri", 200, FALSE),
                         Participant("p2", "Yasuo", 200, FALSE)>>],
     [participants |-> <<Participant("p2", "Zed", 200, TRUE),
                         Participant("p3", "Yasuo", 200, FALSE)>>]}

\* lines 244-248: the participants with the player's puuid; find() takes
\* the first
OurPlayers(match_data) ==
    SelectSeq(match_data.participants, LAMBDA p : p.puuid = PlayerPuuid)

\* lines 250-254
OurTeamId(match_data) ==
    IF OurPlayers(match_data) = <<>> THEN DEFAULT_TEAM_ID
    ELSE Head(OurPlayers(match_data)).team_id

Won(match_data) ==
    IF OurPlayers(match_data) = <<>> THEN FALSE
    ELSE Head(OurPlayers(match_data)).win

PlayerChampion(match_data) ==
    IF OurPlayers(match_data) = <<>> THEN "Unknown"
    ELSE Head(OurPlayers(match_data)).champion_name

\* mutant: every match of the batch weighs the same
RecencyWeightFlat(i, n) == F64One

\* line 258: 1.0 - (idx as f64 / match_ids.len() as f64), i counted from
\* 0; the quotient is rounded, then the difference
RecencyWeight(i, n) == F64Sub(F64One, F64Div(F64OfInt(i), F64OfInt(n)))

\* the weights of every batch length that --matches allows, computed once
RecencyWeights ==
    [n \in 1 .. MaxMatches |-> [i \in 1 .. n |-> RecencyWeight(i - 1, n)]]

\* lines 261-265: the champions of the other team, in participant order
EnemyChampions(match_data) ==
    LET enemies == SelectSeq(match_data.participants,
                     LAMBDA p : p.team_id # OurTeamId(match_data))
    IN  [i \in DOMAIN enemies |-> enemies[i].champion_name]

\* mutant: the same-team branch does not test the puuid
RECURSIVE TrackAllOfTeam(_, _, _, _, _)
TrackAllOfTeam(t, ps, our_team_id, won, recency_weight) ==
    IF ps = <<>> THEN t
    ELSE LET p == Head(ps)
             next ==
               IF p.team_id # our_team_id
               THEN [t EXCEPT !.stats =
                       AddChampionEncounter(@, p.champion_name, won,
                                            recency_weight),
                              !.recorded =
                       Append(@, Encounter(FALSE, p.champion_name, won,
                                           recency_weight))]
               ELSE [t EXCEPT !.ally_stats =
                       AddAllyEncounter(@, p.champion_name, won,
                                        recency_weight),
                              !.recorded =
                       Append(@, Encounter(TRUE, p.champion_name, won,
                                           recency_weight))]
         IN  TrackAllOfTeam(next, Tail(ps), our_team_id, won, recency_weight)

\* lines 261-278: the loop over the participants of one match, on the
\* tracker t = [stats, ally_stats, recorded]
RECURSIVE TrackParticipants(_, _, _, _, _)
TrackParticipants(t, ps, our_team_id, won, recency_weight) ==
    IF ps = <<>> THEN t
    ELSE LET p == Head(ps)
             next ==
               IF p.team_id # our_team_id
               THEN [t EXCEPT !.stats =
                       AddChampionEncounter(@, p.champion_name, won,
                                            recency_weight),
                              !.recorded =
                       Append(@, Encounter(FALSE, p.champion_name, won,
                                           recency_weight))]
               ELSE IF p.puuid # PlayerPuuid
               THEN [t EXCEPT !.ally_stats =
                       AddAllyEncounter(@, p.champion_name, won,
                                        recency_weight),
                              !.recorded =
                       Append(@, Encounter(TRUE, p.champion_name, won,
                                           recency_weight))]
               ELSE t
         IN  TrackParticipants(next, Tail(ps), our_team_id, won,
                               recency_weight)

Init ==
    /\ now = 0
    /\ logFile \in InitLogFiles \cup {CorruptFile}
    /\ log = NewLog(Player, 0)
    /\ cacheFile \in InitRunCacheFiles
    /\ cache = NoCache
    /\ IdleRun
    /\ NoHistory

Skip(l, n) == SubSeq(l, n + 1, Len(l))
Take(l, n) == SubSeq(l, 1, Min(n, Len(l)))

HasCache(c) == c.kind = "cache" /\ c.matches # <<>>

TotalNeeded(a) == Min(Min(a.matches, MATCH_LIMIT) + a.offset, MATCH_LIMIT)

\* lines 120-212: the ids the run works from, given the API's list
AllMatchIds(c, a, api_match_ids) ==
    IF HasCache(c) /\ ~a.refresh
    THEN LET cached == [i \in DOMAIN c.matches |-> c.matches[i].id]
             new_ids == SelectSeq(api_match_ids,
                                  LAMBDA id : id \notin IdsOf(c.matches))
         IN  IF new_ids = <<>> THEN cached ELSE new_ids \o cached
    ELSE api_match_ids

\* lines 215-220
MatchSlice(all_match_ids, a) ==
    Take(Skip(all_match_ids, a.offset), Min(a.matches, MATCH_LIMIT))

\* lines 79-87: TRUE when run() returns the ApiError
GateRefuses(l, refresh) ==
    IF ~refresh /\ CanMakeRequest(l) THEN FALSE
    ELSE refresh /\ ~CanMakeRequest(l)

\* mutant: the request is recorded before the call's result is examined
RecordAlways(l, ok, t) == RecordRequest(l, t)

\* `let x = client.call()?; rate_limiter.record_request();`
RecordIfOk(l, ok, t) == IF ok THEN RecordRequest(l, t) ELSE l

\* `rate_limiter.save().ok()`: the write may fail, silently
SavedLog(file, l, written) == Saved(file, LogFileOf(l), written)

\* mutant: the error path also displays the match history gathered so far
ErrorOutputWithHistory(r) == {"error", "match_history"}

\* what the user is shown when run() returns the error r: the message
\* main() displays, after the budget status when the gate refused
\* a panic ends the process before anything more is displayed
ErrorOutput(r) ==
    IF r = "ApiError" THEN {"status", "error"}
    ELSE IF r = "panic" THEN {}
    ELSE {"error"}

\* lines 334-336 and display_ally_analysis(): the section is printed when
\* analyze_allies(ally_stats, 1) is not empty
AllySectionShown(ally_stats) ==
    \E stat \in GetAllyStats(ally_stats) : stat.times_faced >= MIN_ALLY_GAMES

\* lines 331-340: what a run that reaches its end displays;
\* display_status() prints nothing when get_remaining(), its first
\* statement, panics
ResultOutput(ally_stats, status) ==
    {"match_history", "ban_recommendations"}
        \cup (IF AllySectionShown(ally_stats) THEN {"ally_analysis"} ELSE {})
        \cup (IF status.remaining.panicked THEN {} ELSE {"status"})

\* how a run ends whose display_status() gave the status: the panic of
\* get_remaining() ends the process, else run() returns r
StatusResult(status, r) == IF status.remaining.panicked THEN "panic" ELSE r

\* `.ok()` and `let _ =` on the result of save(): nothing is displayed
SaveOutput(written) == {}

\* what a step displays that leaves run() at p with the error r
Output(p, r) == IF p # "done" THEN {} ELSE ErrorOutput(r)

\* 1 when the save() of the step failed, else 0
Failed(ok, written) == IF ok /\ written # "written" THEN 1 ELSE 0

EndRun(r) ==
    /\ pc' = "done"
    /\ result' = r

\* lines 67-97.  A behaviour holds one invocation of the program; what
\* earlier invocations left on disk is in the initial state.
RunStart ==
    /\ pc = "idle"
    /\ steps = 0
    /\ steps' = steps + 1
    /\ \E a \in ArgsSet, configured \in BOOLEAN :
        /\ args' = a
        /\ IF ~configured
           THEN EndRun("ConfigError") /\ log' = log /\ analysis' = analysis
           ELSE LET loaded == LoadLog(logFile, Player, now)
                IN  IF ~loaded.ok
                    THEN /\ EndRun("JsonError")
                         /\ log' = log
                         /\ analysis' = analysis
                    ELSE /\ log' = loaded.log
                         /\ IF GateRefuses(loaded.log, a.refresh)
                            THEN \E status \in DisplayStatus(loaded.log) :
                                    /\ analysis' = status
                                    /\ EndRun(StatusResult(status,
                                                           "ApiError"))
                            ELSE /\ pc' = "get_account"
                                 /\ result' = "none"
                                 /\ analysis' = analysis
    /\ failedSaves' = 0
    /\ cache' = NoCache
    /\ match_ids' = <<>>
    /\ idx' = 0
    /\ match_history' = <<>>
    /\ calls' = 0
    /\ records' = 0
    /\ saves' = 0
    /\ lastStep' = "start"
    /\ shown' = Output(pc', result')
    /\ UNCHANGED <<now, logFile, cacheFile, lastBatch, startUnique>>
    /\ UNCHANGED trackVars

\* lines 98-99: get_account() returns; the slice &account.puuid[0..8]
\* panics when the puuid has fewer than 8 bytes
AccountReturns ==
    /\ pc = "get_account"
    /\ calls' = calls + 1
    /\ \E ok \in BOOLEAN, puuid \in Puuids :
        /\ now' = now + CallTime
        /\ lastStep' = IF ok THEN "call_ok" ELSE "call_failed"
        /\ IF ~ok THEN EndRun("ClientError")
           ELSE IF Len(puuid) < PUUID_SHOWN THEN EndRun("panic")
           ELSE pc' = "get_summoner" /\ result' = result
    /\ shown' = shown \cup Output(pc', result')
    /\ UNCHANGED <<budgetVars, cacheVars, args, match_ids, idx,
                   match_history>>
    /\ UNCHANGED <<records, saves, lastBatch, startUnique, steps>>
    /\ failedSaves' = 0
    /\ UNCHANGED trackVars
    /\ UNCHANGED analysis

\* lines 103-126: get_summoner() returns; then the cache is loaded
SummonerReturns ==
    /\ pc = "get_summoner"
    /\ calls' = calls + 1
    /\ \E ok \in BOOLEAN :
        /\ now' = now + CallTime
        /\ lastStep' = IF ok THEN "call_ok" ELSE "call_failed"
        /\ IF ok
           THEN /\ pc' = "get_match_ids"
                /\ result' = result
                /\ cache' = LET loaded ==
                                  LoadCache(cacheFile, Player, AtMs(now'))
                            IN  IF loaded.ok THEN loaded.cache ELSE NoCache
           ELSE EndRun("ClientError") /\ cache' = cache
    /\ shown' = shown \cup Output(pc', result')
    /\ UNCHANGED <<budgetVars, cacheFile, args, match_ids, idx,
                   match_history>>
    /\ UNCHANGED <<records, saves, lastBatch, startUnique, steps>>
    /\ failedSaves' = 0
    /\ UNCHANGED trackVars
    /\ UNCHANGED analysis

\* lines 127-226 (184-226, 201-226): get_match_ids() returns
MatchIdsReturns ==
    /\ pc = "get_match_ids"
    /\ calls' = calls + 1
    /\ \E ok \in BOOLEAN, written \in SaveOutcomes,
          api_match_ids \in IdLists, delay \in RetriedCallTimes :
        /\ now' = now + delay
        /\ lastStep' = IF ok THEN "call_ok" ELSE "call_failed"
        /\ log' = RecordIfOk(log, ok, now')
        /\ IF ~ok
           THEN /\ EndRun("ClientError")
                /\ UNCHANGED <<logFile, match_ids, records, saves>>
           ELSE /\ records' = records + 1
                /\ saves' = saves + 1
                /\ logFile' = SavedLog(logFile, log', written)
                /\ LET ids == MatchSlice(AllMatchIds(cache, args,
                                                     api_match_ids), args)
                   IN  IF api_match_ids = <<>> \/ ids = <<>>
                       THEN EndRun("NoRankedGames") /\ match_ids' = <<>>
                       ELSE /\ pc' = "get_match"
                            /\ result' = result
                            /\ match_ids' = ids
        /\ shown' = shown \cup SaveOutput(written) \cup Output(pc', result')
        /\ failedSaves' = Failed(ok, written)
    /\ UNCHANGED <<cacheVars, args, idx, match_history>>
    /\ UNCHANGED <<lastBatch, startUnique, steps>>
    /\ UNCHANGED trackVars
    /\ UNCHANGED analysis

\* lines 234-286: get_match() returns for match_ids[idx]
MatchReturns ==
    /\ pc = "get_match"
    /\ calls' = calls + 1
    /\ \E ok \in BOOLEAN, written \in SaveOutcomes,
          match_data \in MatchDatas :
        /\ now' = now + CallTime
        /\ lastStep' = IF ok THEN "call_ok" ELSE "call_failed"
        /\ log' = RecordIfOk(log, ok, now')
        /\ IF ~ok
           THEN /\ EndRun("ClientError")
                /\ UNCHANGED <<logFile, idx, match_history, records, saves>>
           ELSE /\ records' = records + 1
                /\ saves' = saves + 1
                /\ logFile' = SavedLog(logFile, log', written)
                /\ match_history' = Append(match_history,
                       [match_number |-> idx + 1,
                        player_champion |-> PlayerChampion(match_data),
                        won |-> Won(match_data),
                        enemy_champions |-> EnemyChampions(match_data)])
                /\ idx' = idx + 1
                /\ pc' = IF idx + 1 < Len(match_ids) THEN "get_match"
                                                      ELSE "update_cache"
                /\ result' = result
        /\ shown' = shown \cup SaveOutput(written) \cup Output(pc', result')
        /\ failedSaves' = Failed(ok, written)
        /\ IF ~ok
           THEN UNCHANGED trackVars
           ELSE LET t == TrackParticipants(
                           [stats |-> tracker, ally_stats |-> ally_tracker,
                            recorded |-> encounters],
                           match_data.participants,
                           OurTeamId(match_data), Won(match_data),
                           RecencyWeights[Len(match_ids)][idx + 1])
                IN  /\ tracker' = t.stats
                    /\ ally_tracker' = t.ally_stats
                    /\ encounters' = t.recorded
                    /\ fetched' = match_data
    /\ UNCHANGED <<cacheVars, args, match_ids>>
    /\ UNCHANGED <<lastBatch, startUnique, steps>>
    /\ UNCHANGED analysis

\* how far the clock may have moved on when it is read: not at all (a clock
\* coarser than the step), by a nanosecond, by 2.5 ms
ClockOffsets == {Instant(0, 0), Instant(0, 1), Instant(2, 500000)}

\* n readings of Utc::now() taken one after another from the instant t on,
\* in nanoseconds: no reading is earlier than the one before it
ClockReadings(n, t) ==
    {readings \in [1 .. n -> {Later(t, d) : d \in ClockOffsets}] :
        \A i \in 2 .. n : NotBefore(readings[i], readings[i - 1])}

\* lines 297-306
CachedMatchesOf(history, ids, stamps) ==
    [i \in DOMAIN history |->
        [id |-> ids[history[i].match_number],
         champion |-> history[i].player_champion,
         won |-> history[i].won,
         enemies |-> history[i].enemy_champions,
         timestamp |-> stamps[i]]]

\* lines 288-342: the cache is updated and saved, the results displayed;
\* what display_status() makes of the budget at line 340 is kept in analysis.
\* The clock is read anew once for each cache entry (line 304) and once
\* more by add_matches() (cache.rs line 111); now stays the instant of the
\* last call of the client.
Finish ==
    /\ pc = "update_cache"
    /\ \E written \in SaveOutcomes,
          readings \in ClockReadings(Len(match_history) + 1, AtMs(now)) :
        LET c == IF cache.kind = "none"
                 THEN NewCache(Player, ConfigRegion, AtMs(now)) ELSE cache
            stamps == SubSeq(readings, 1, Len(match_history))
            cached_matches == CachedMatchesOf(match_history, match_ids, stamps)
        IN  /\ cache' = AddMatches([c EXCEPT !.region = ConfigRegion],
                                   cached_matches, readings[Len(readings)])
            /\ cacheFile' = Saved(cacheFile, CacheFileOf(cache'), written)
            /\ lastBatch' = cached_matches
            /\ \E status \in DisplayStatus(log) :
                  /\ analysis' = status
                  /\ EndRun(StatusResult(status, "ok"))
                  /\ shown' = shown \cup SaveOutput(written)
                                \cup ResultOutput(ally_tracker, status)
            /\ failedSaves' = Failed(TRUE, written)
    /\ lastStep' = "finish"
    /\ UNCHANGED <<now, budgetVars, args, match_ids, idx, match_history>>
    /\ UNCHANGED <<calls, records, saves, startUnique, steps>>
    /\ UNCHANGED trackVars

\* The instants at which the program is started: with the 1-second window
\* of the budget file elapsed, and with both windows elapsed.
StartInstants == {2000, EarlyStart + 121000}

\* Time passes before the invocation; inside it the clock advances with
\* every call of the client.
RunTick ==
    /\ pc = "idle"
    /\ \E t \in StartInstants : t > now /\ now' = t
    /\ lastStep' = "tick"
    /\ UNCHANGED <<budgetVars, cacheVars, runVars>>
    /\ UNCHANGED <<calls, records, saves, lastBatch, startUnique, steps>>
    /\ UNCHANGED <<outVars, trackVars>>
    /\ UNCHANGED analysis

\* main() returns or exits: the process and what it held in memory are gone
Exit ==
    /\ pc = "done"
    /\ pc' = "idle"
    /\ args' = NoArgs
    /\ match_ids' = <<>>
    /\ idx' = 0
    /\ match_history' = <<>>
    /\ result' = "none"
    /\ log' = NewLog(Player, 0)
    /\ cache' = NoCache
    /\ calls' = 0
    /\ records' = 0
    /\ saves' = 0
    /\ lastStep' = "exit"
    /\ lastBatch' = <<>>
    /\ shown' = {}
    /\ failedSaves' = 0
    /\ tracker' = EmptyStats
    /\ ally_tracker' = EmptyStats
    /\ encounters' = <<>>
    /\ fetched' = NoMatch
    /\ analysis' = NoAnalysis
    /\ UNCHANGED <<now, logFile, cacheFile, startUnique, steps>>

Next ==
    \/ RunStart
    \/ AccountReturns
    \/ SummonerReturns
    \/ MatchIdsReturns
    \/ MatchReturns
    \/ Finish
    \/ Exit
    \/ RunTick

Spec == Init /\ [][Next]_vars

----------------------------------------------------------------------------
(* Claims about run() and the budget *)

\* a step in which a client call was made and returned
ClientCall == calls' = calls + 1

\* C1: every client call of run() is made while can_make_request() is true,
\* and a run that loads an exhausted budget ends with an error before any
\* call, whatever --refresh is.
C1_NoCallWhileExhausted ==
    [][/\ ClientCall => CanMakeRequest(log)
       /\ (/\ lastStep' = "start"
           /\ result' \notin {"ConfigError", "JsonError"}
           /\ ~CanMakeRequest(log'))
          => (pc' = "done" /\ result' = "ApiError")
      ]_vars

\* C6: in run() a window count only moves in a step where a client call
\* returned successfully, by exactly one record_request(); a failed call
\* ends the run with the budget, in memory and on disk, as it was.
C6_RecordOnlyAfterSuccessfulCall ==
    [][/\ (/\ lastStep' \notin {"start", "exit"}
           /\ \/ log'.requests_per_2min # log.requests_per_2min
              \/ log'.requests_per_sec # log.requests_per_sec
              \/ records' # records)
          => /\ ClientCall
             /\ lastStep' = "call_ok"
             /\ records' = records + 1
             /\ log'.requests_per_2min = log.requests_per_2min + 1
             /\ log'.requests_per_sec = log.requests_per_sec + 1
       /\ lastStep' = "call_failed"
          => /\ ClientCall
             /\ log' = log
             /\ logFile' = logFile
             /\ records' = records
             /\ pc' = "done"
             /\ result' = "ClientError"
      ]_vars

\* C6 witness: a match-detail fetch failed after earlier calls were recorded
C6_Witness ==
    /\ lastStep = "call_failed"
    /\ pc = "done"
    /\ records >= 2
    /\ calls = records + 3

\* C7: when run() ends, the record_request() calls it made are as many as
\* the client calls that went out and returned (account, summoner, match
\* ids, every match), each followed by a save of the budget.
C7_RecordsMatchCalls ==
    pc = "done" =>
        /\ records = calls - (IF result = "ClientError" THEN 1 ELSE 0)
        /\ saves = records

----------------------------------------------------------------------------
(* The two windows as the specification names them *)

Windows == {"2min", "1sec"}
CountOf(l, w) == IF w = "2min" THEN l.requests_per_2min ELSE l.requests_per_sec
StartOf(l, w) == IF w = "2min" THEN l.window_2min_start ELSE l.window_1sec_start
LimitOf(w) == IF w = "2min" THEN 100 ELSE 20
DurationMsOf(w) == IF w = "2min" THEN 120000 ELSE 1000
OtherWindow(w) == IF w = "2min" THEN "1sec" ELSE "2min"

\* a load() step that read a parsable budget file
LoadedPersisted == lastStep' = "load" /\ logFile.kind = "log"

\* window w of l holds MAX requests, the last of them recorded within it
FilledWithinWindow(l, w) ==
    /\ CountOf(l, w) >= LimitOf(w)
    /\ l.last_request - StartOf(l, w) <= DurationMsOf(w)

\* C2: once a window holds MAX recorded requests, can_make_request() stays
\* false while the window's elapsed time does not exceed its duration, and a
\* load() after the elapsed time exceeds the duration yields count 0 for that
\* window and can_make_request() true if the other window allows.
C2_ExhaustedUntilWindowElapsed ==
    [][\A w \in Windows :
        /\ (/\ lastStep' \in {"record", "save", "save_failed", "tick"}
            /\ FilledWithinWindow(log, w)
            /\ now' - StartOf(log, w) <= DurationMsOf(w))
           => ~CanMakeRequest(log')
        /\ (/\ LoadedPersisted
            /\ FilledWithinWindow(logFile.log, w)
            /\ now - StartOf(logFile.log, w) <= DurationMsOf(w))
           => ~CanMakeRequest(log')
        /\ (/\ LoadedPersisted
            /\ FilledWithinWindow(logFile.log, w)
            /\ now - StartOf(logFile.log, w) > DurationMsOf(w))
           => /\ CountOf(log', w) = 0
              /\ (CountOf(log', OtherWindow(w)) < LimitOf(OtherWindow(w))
                    => CanMakeRequest(log'))
      ]_vars

\* C3: can_make_request() is true exactly when requests_per_2min < 100 and
\* requests_per_sec < 20; either window at its maximum alone makes it false.
C3_CanMakeIffAllBelowMax ==
    /\ CanMakeRequest(log) <=>
          (log.requests_per_2min < 100 /\ log.requests_per_sec < 20)
    /\ (log.requests_per_2min >= 100 \/ log.requests_per_sec >= 20)
          => ~CanMakeRequest(log)

\* C3 witness: record_request() has filled the 2-minute window alone
C3_Witness ==
    /\ lastStep = "record"
    /\ log.requests_per_2min = 100
    /\ log.requests_per_sec < 20
    /\ ~CanMakeRequest(log)

\* C4: load() of a persisted log treats each window on its own: elapsed time
\* beyond the duration (120 s, 1 s) resets it to count 0 and start = now,
\* otherwise its count and start are kept.
C4_LoadResetsElapsedWindows ==
    [][LoadedPersisted =>
        \A w \in Windows :
            IF now - StartOf(logFile.log, w) > DurationMsOf(w)
            THEN CountOf(log', w) = 0 /\ StartOf(log', w) = now
            ELSE /\ CountOf(log', w) = CountOf(logFile.log, w)
                 /\ StartOf(log', w) = StartOf(logFile.log, w)
      ]_vars

\* C5: record_request() adds exactly 1 to both counts, sets last_request to
\* the current time and leaves player and both window starts unchanged.
C5_RecordRequestFrame ==
    [][lastStep' = "record" =>
        /\ log'.requests_per_2min = log.requests_per_2min + 1
        /\ log'.requests_per_sec = log.requests_per_sec + 1
        /\ log'.last_request = now'
        /\ log'.player = log.player
        /\ log'.window_2min_start = log.window_2min_start
        /\ log'.window_1sec_start = log.window_1sec_start
      ]_vars

\* C5 witness: a request recorded after the clock moved, on a log whose
\* windows were opened earlier
C5_Witness ==
    /\ lastStep = "record"
    /\ log.last_request > log.window_1sec_start
    /\ log.requests_per_2min > log.requests_per_sec

----------------------------------------------------------------------------
(* Claims about the match cache *)

Merged == lastStep \in {"add", "add_again"}

\* the match list the cache file holds
FileMatches ==
    IF cacheFile.kind = "cache" THEN cacheFile.cache.matches ELSE <<>>

SortedDesc(ms) ==
    \A i, j \in DOMAIN ms :
        i < j => NotBefore(ms[i].timestamp, ms[j].timestamp)

\* C8: starting from a cache with unique identifiers, after any sequence of
\* add_matches() calls with arbitrary batches no two entries of matches
\* have the same id.
C8_IdsStayUnique == startUnique => Unique(cache.matches)

\* C9: merging the same batch a second time leaves the matches sequence
\* exactly as the first merge left it.
C9_AddMatchesIdempotent ==
    [][lastStep' = "add_again" => cache'.matches = cache.matches]_vars

\* C9 witness: a batch of two entries, at least one of them new to the
\* cache, has been merged twice in a row
C9_Witness ==
    /\ lastStep = "add_again"
    /\ Len(lastBatch) = 2
    /\ Len(cache.matches) > Len(FileMatches)

\* C10: after every add_matches() call the matches sequence is sorted in
\* descending order of timestamp, whatever the cache held before.
C10_SortedAfterMerge == Merged => SortedDesc(cache.matches)

\* C10 witness: a merge into a cache whose file held an unsorted list
C10_Witness ==
    /\ lastStep = "add"
    /\ ~SortedDesc(FileMatches)
    /\ Len(cache.matches) > Len(FileMatches)

\* how many entries of ms are the record m
CountIn(ms, m) == Len(SelectSeq(ms, LAMBDA x : x = m))

\* C11: add_matches() keeps every cached record with identical fields, skips
\* an incoming match whose id is already cached, appends an incoming match
\* whose id is not cached, so that the ids afterwards are the union of the
\* cached ids and the batch's ids; player, region and account are unchanged.
\* Record by record: matches holds each record as often as before, plus as
\* often as the batch holds it when its id was not cached.
C11_AddMatchesKeepsCached ==
    [][lastStep' \in {"add", "add_again"} =>
        /\ \A r \in CachedMatches :
              CountIn(cache'.matches, r) =
                 CountIn(cache.matches, r)
                 + (IF r.id \in IdsOf(cache.matches) THEN 0
                    ELSE CountIn(lastBatch', r))
        /\ IdsOf(cache'.matches) = IdsOf(cache.matches) \cup IdsOf(lastBatch')
        /\ cache'.player = cache.player
        /\ cache'.region = cache.region
        /\ cache'.account = cache.account
      ]_vars

\* C11 witness: a batch of two was merged, one entry carrying a cached id
\* with another timestamp (skipped), the other a new id (appended)
C11_Witness ==
    /\ lastStep = "add"
    /\ Len(lastBatch) = 2
    /\ Len(cache.matches) = Len(FileMatches) + 1
    /\ \E i, j \in DOMAIN lastBatch :
          /\ lastBatch[i].id \in IdsOf(FileMatches)
          /\ CountIn(cache.matches, lastBatch[i]) = 0
          /\ lastBatch[j].id \notin IdsOf(FileMatches)
          /\ CountIn(cache.matches, lastBatch[j]) = 1

----------------------------------------------------------------------------
(* Claims about the cache update of run() *)

\* the order in which the games were played: a later game has a larger number
GameNumber(id) == IF id = "NA1_1" THEN 1 ELSE 2

\* a list of ids as the API gives it, most recently played first
NewestFirstIds(ids) ==
    \A i, j \in DOMAIN ids : i < j => GameNumber(ids[i]) > GameNumber(ids[j])

\* no match of the list comes after one that was played before it
NewestFirst(ms) ==
    \A i, j \in DOMAIN ms :
        i < j => GameNumber(ms[i].id) >= GameNumber(ms[j].id)

\* C12: when run() stores the matches it analysed, taken newest first and
\* stamped one by one, into a cache that was newest first, no match played
\* more recently comes after an older one in the cache's matches sequence.
C12_CacheNewestFirst ==
    [][(/\ lastStep' = "finish"
        /\ NewestFirstIds(match_ids)
        /\ cache.kind = "cache" => NewestFirst(cache.matches))
       => NewestFirst(cache'.matches)
      ]_vars

----------------------------------------------------------------------------
(* Claims about failures of load() and save() in run() *)

\* the persisted state is absent, unreadable or unparsable
LoadFails(file) == file.kind \in {"absent", "corrupt"}

\* C13: when the budget file, resp. the cache file, is absent, unreadable or
\* unparsable, load() gives run() a fresh state for the player (zeroed
\* counts, resp. no matches and region "na1"), and run() does not end with
\* an error because of it.
C13_LoadFailureNotFatal ==
    [][/\ (/\ lastStep' = "start"
           /\ result' # "ConfigError"
           /\ LoadFails(logFile))
          => /\ log' = NewLog(Player, now)
             /\ result' # "JsonError"
       /\ (/\ pc = "get_summoner"
           /\ lastStep' = "call_ok"
           /\ LoadFails(cacheFile))
          => /\ cache' = NewCache(Player, DefaultRegion, AtMs(now'))
             /\ pc' # "done"
      ]_vars

\* an output that reports a failed save(), if the program had one
SaveFailureOutput == {"save_failed"}

\* C14: whenever a save() of the budget or of the cache fails during run(),
\* the failure is displayed to the user, and the run does not end with an
\* error because of it.
C14_SaveFailureReported ==
    [][(failedSaves' = 1 /\ lastStep' \in {"call_ok", "finish"}) =>
        /\ shown' \cap SaveFailureOutput # {}
        /\ pc' = "done" => result' \in {"ok", "NoRankedGames"}
      ]_vars

\* C15: when a get_match() call fails, at any position of the batch, run()
\* returns the error without displaying match history, ban recommendations
\* or ally analysis and without touching the cache file; the cache file is
\* only ever written by a run that analysed its whole batch.
C15_FailedFetchAllOrNothing ==
    [][/\ (pc = "get_match" /\ lastStep' = "call_failed")
          => /\ pc' = "done"
             /\ result' = "ClientError"
             /\ shown' \cap {"match_history", "ban_recommendations",
                             "ally_analysis"} = {}
             /\ cacheFile' = cacheFile
       /\ cacheFile' # cacheFile
          => /\ lastStep' = "finish"
             /\ result' # "ClientError"
             /\ idx = Len(match_ids)
      ]_vars

\* C15 witness: the second fetch of a batch failed after the first one
\* succeeded, for a player with matches cached by an earlier run
C15_Witness ==
    /\ lastStep = "call_failed"
    /\ result = "ClientError"
    /\ idx = 1
    /\ Len(match_ids) = 2
    /\ Len(match_history) = 1
    /\ FileMatches # <<>>

----------------------------------------------------------------------------
(* Claims about the encounter tracker *)

\* the opponent encounters recorded so far for the name
Recorded(name) ==
    {i \in DOMAIN encounters :
        ~encounters[i].ally /\ encounters[i].name = name}

\* C16: each champion's times_faced is the number of encounters recorded
\* for its name, its wins_against the number of those recorded with won =
\* TRUE, and wins_against <= times_faced.
C16_CountsMatchEncounters ==
    \A name \in DOMAIN tracker :
        /\ tracker[name].times_faced = Cardinality(Recorded(name))
        /\ tracker[name].wins_against =
              Cardinality({i \in Recorded(name) : encounters[i].won})
        /\ tracker[name].wins_against <= tracker[name].times_faced

\* C16 witness: a champion faced three times, won against and lost to
C16_Witness ==
    \E name \in DOMAIN tracker :
        /\ tracker[name].times_faced = 3
        /\ tracker[name].wins_against \in {1, 2}

\* the names recorded so far as opponents
RecordedNames ==
    {encounters[i].name : i \in {j \in DOMAIN encounters : ~encounters[j].ally}}

\* C17: get_stats() holds exactly one stat per distinct name recorded so
\* far, each with times_faced >= 1; an encounter for one name deletes no
\* stat and leaves the stats of every other name unchanged.
C17_OneStatPerName ==
    /\ [](/\ {st.name : st \in GetStats(tracker)} = RecordedNames
          /\ Cardinality(GetStats(tracker)) = Cardinality(RecordedNames)
          /\ \A st \in GetStats(tracker) : st.times_faced >= 1)
    /\ [][lastStep' = "encounter" =>
            \A name \in DOMAIN tracker :
                /\ name \in DOMAIN tracker'
                /\ name # encounters'[Len(encounters')].name
                      => tracker'[name] = tracker[name]
         ]_vars

\* C17 witness: an encounter with a second champion, after two encounters
\* with the first
C17_Witness ==
    /\ lastStep = "encounter"
    /\ Len(encounters) = 3
    /\ Cardinality(GetStats(tracker)) = 2
    /\ \E st \in GetStats(tracker) :
          st.times_faced = 2 /\ st.name # encounters[3].name

----------------------------------------------------------------------------
(* Claims about the match loop of run() *)

\* a step in which get_match() returned a match and run() processed it
MatchProcessed == pc = "get_match" /\ lastStep' = "call_ok"

TimesFaced(stats, name) ==
    IF name \in DOMAIN stats THEN stats[name].times_faced ELSE 0

\* the participants of the match that play the champion and satisfy Side
PlayingIn(match_data, name, Side(_)) ==
    Cardinality({i \in DOMAIN match_data.participants :
                    /\ match_data.participants[i].champion_name = name
                    /\ Side(match_data.participants[i])})

NamesIn(match_data) ==
    {match_data.participants[i].champion_name :
        i \in DOMAIN match_data.participants}

\* C18: while run() processes a match that the tracked player took part
\* in, each participant of the other team is recorded once as an opponent
\* encounter, each same-team participant other than the tracked player once
\* as an ally encounter, the tracked player in neither, and the two sets of
\* stats do not affect each other, even for the same champion name.
C18_AlliesAndOpponentsApart ==
    [][(MatchProcessed /\ OurPlayers(fetched') # <<>>) =>
        LET me == Head(OurPlayers(fetched'))
            Opponent(p) == p.team_id # me.team_id
            Ally(p) == p.team_id = me.team_id /\ p.puuid # PlayerPuuid
        IN  \A name \in NamesIn(fetched') \cup DOMAIN tracker'
                        \cup DOMAIN ally_tracker' :
                /\ TimesFaced(tracker', name) =
                      TimesFaced(tracker, name)
                      + PlayingIn(fetched', name, Opponent)
                /\ TimesFaced(ally_tracker', name) =
                      TimesFaced(ally_tracker, name)
                      + PlayingIn(fetched', name, Ally)
      ]_vars

\* C18 witness: a match was processed in which the same champion was played
\* against the tracked player and alongside them
C18_Witness ==
    /\ lastStep = "call_ok"
    /\ OurPlayers(fetched) # <<>>
    /\ \E name \in DOMAIN tracker \cap DOMAIN ally_tracker :
          tracker[name].times_faced = 1 /\ ally_tracker[name].times_faced = 1
    /\ PlayerChampion(fetched) \notin DOMAIN tracker \cup DOMAIN ally_tracker

\* C19: the weight run() passes for the match at index idx of a batch of n
\* is 1 - idx/n, to within the rounding of the division and the subtraction
\* of f64 (2^-52), lies in [0, 1] and is strictly below the weight of every
\* earlier match of the batch; no champion's recency_score, opponent or
\* ally, ever decreases during the run.
C19_RecencyWeightDecreases ==
    [][(MatchProcessed /\ Len(encounters') > Len(encounters)) =>
        /\ LET recency_weight == encounters'[Len(encounters')].weight
           IN  /\ F64Within(recency_weight, Len(match_ids) - idx,
                            Len(match_ids), MantissaBits - 1)
               /\ F64Leq(F64Zero, recency_weight)
               /\ F64Leq(recency_weight, F64One)
               /\ \A j \in DOMAIN encounters :
                     F64Less(recency_weight, encounters[j].weight)
               /\ \A i \in Len(encounters) + 1 .. Len(encounters') :
                     encounters'[i].weight = recency_weight
        /\ \A name \in DOMAIN tracker :
              F64Leq(tracker[name].recency_score,
                     tracker'[name].recency_score)
        /\ \A name \in DOMAIN ally_tracker :
              F64Leq(ally_tracker[name].recency_score,
                     ally_tracker'[name].recency_score)
      ]_vars

\* C19 witness: the second match of a batch of three was processed with
\* the weight 0.6666666666666667, one step above the double nearest to 2/3,
\* and an opponent met in both matches has the recency score
\* 1.6666666666666667
C19_Witness ==
    /\ lastStep = "call_ok"
    /\ idx = 2
    /\ Len(match_ids) = 3
    /\ encounters[Len(encounters)].weight # F64Ratio(2, 3)
    /\ \E name \in DOMAIN tracker :
          /\ tracker[name].times_faced = 2
          /\ tracker[name].recency_score =
                F64Add(F64One, encounters[Len(encounters)].weight)
          /\ F64Nearest(tracker[name].recency_score, 5, 3)

----------------------------------------------------------------------------
(* Claims about the values derived from a stat *)

\* C20: the win rate, of ChampionStats::win_rate() and of an AllyAnalysis
\* alike, is 0 when times_faced = 0 and otherwise exactly wins_against /
\* times_faced, that is the double nearest to the quotient; no division by
\* zero occurs, and with wins_against <= times_faced it lies between 0 and 1.
C20_WinRate ==
    analysis.op \in {"win_rate", "ally_analysis"} =>
        /\ analysis.win_rate.kind = "finite"
        /\ analysis.times = 0 => analysis.win_rate = F64Zero
        /\ analysis.times > 0 =>
              F64Nearest(analysis.win_rate, analysis.wins, analysis.times)
        /\ analysis.wins <= analysis.times =>
              /\ F64Leq(F64Zero, analysis.win_rate)
              /\ F64Leq(analysis.win_rate, F64One)

\* C20 witness: the win rate of a stat that was never faced
C20_Witness ==
    /\ analysis.op = "win_rate"
    /\ analysis.times = 0
    /\ analysis.win_rate = F64Zero

\* C21: calculate_score(stat, total_games, max_recency) is
\* 0.4 * (times_faced / total_games) + 0.5 * (1 - win_rate)
\* + 0.1 * (recency_score / max_recency), the first term 0 when total_games
\* = 0 and the last 0 when max_recency <= 0; the double returned is the
\* value of the formula to within the rounding of its f64 operations, 2^-45.
C21_ScoreFormula ==
    analysis.op = "score" =>
        LET stat == analysis.stat
            frequency_fraction ==
                IF analysis.total_games = 0 THEN Zero
                ELSE Rat(stat.times_faced, analysis.total_games)
            win_rate ==
                IF stat.times_faced = 0 THEN Zero
                ELSE Rat(stat.wins_against, stat.times_faced)
            recency_fraction ==
                IF RatLeq(analysis.max_recency, Zero) THEN Zero
                ELSE RatDiv(analysis.recency, analysis.max_recency)
            tenths == RatAdd(RatAdd(RatMul(Rat(4, 1), frequency_fraction),
                                    RatMul(Rat(5, 1), RatSub(One, win_rate))),
                             recency_fraction)
        IN  F64Within(analysis.score, tenths.num, tenths.den * 10, 45)

\* C21 witness: the worked example, 5 faced, 1 won, recency 0.8, 20 games,
\* max_recency 1.0, scores 0.58 to within the rounding: the double returned
\* is 0.5800000000000001, not the one nearest to 0.58
C21_Witness ==
    /\ analysis.op = "score"
    /\ analysis.stat = ExampleStat
    /\ analysis.total_games = 20
    /\ analysis.max_recency = One
    /\ F64Within(analysis.score, 29, 50, 45)
    /\ analysis.score # F64Ratio(29, 50)

----------------------------------------------------------------------------
(* SpecRequest: RiotApiClient::execute_request(), one step per answer of    *)
(* the HTTP call                                                            *)

MaxRequests == 2

\* the endpoints whose URL the client passes to execute_request()
Urls == {"account", "summoner", "match_ids", "match"}

\* what ureq's call() gives: Ok(resp) whose body can be read or not,
\* Err(Status(code, _)) for a status of 400 or more, or another error
OkResponse(readable) == [kind |-> "ok", readable |-> readable]
StatusError(code) == [kind |-> "status", code |-> code]
TransportError == [kind |-> "transport"]
Responses ==
    {OkResponse(TRUE), OkResponse(FALSE), TransportError}
        \cup {StatusError(code) : code \in {429, 404, 500}}

\* execute_request() entered: lines 38-41
NewRequest(url) ==
    [op |-> "execute_request",
     url |-> url,
     pc |-> "call",
     retry_count |-> 0,
     responses |-> <<>>,
     waits |-> <<>>,
     outcome |-> "none"]

Returned(req, response, outcome) ==
    [req EXCEPT !.responses = Append(@, response),
                !.pc = "returned",
                !.outcome = outcome]

\* mutant: the limit is tested after the retry is counted
OnResponseOneMore(req, response) ==
    IF response.kind = "ok"
    THEN Returned(req, response,
                  IF response.readable THEN "Ok" ELSE "HttpError")
    ELSE IF response.kind = "status" /\ response.code = 429
    THEN IF req.retry_count > MAX_RETRIES
         THEN Returned(req, response, "RateLimited")
         ELSE [req EXCEPT
                 !.responses = Append(@, response),
                 !.waits = Append(@, RETRY_WAIT_MS * (req.retry_count + 1)),
                 !.retry_count = @ + 1]
    ELSE Returned(req, response, "HttpError")

\* one iteration of the loop of lines 43-68, on the answer of call()
OnResponse(req, response) ==
    IF response.kind = "ok"
    THEN Returned(req, response,
                  IF response.readable THEN "Ok" ELSE "HttpError")
    ELSE IF response.kind = "status" /\ response.code = 429
    THEN IF req.retry_count >= MAX_RETRIES
         THEN Returned(req, response, "RateLimited")
         ELSE [req EXCEPT
                 !.responses = Append(@, response),
                 !.waits = Append(@, RETRY_WAIT_MS * (req.retry_count + 1)),
                 !.retry_count = @ + 1]
    ELSE Returned(req, response, "HttpError")

\* the time slept in the iteration that made the last entry of waits
Slept(before, after) ==
    IF Len(after.waits) > Len(before.waits)
    THEN after.waits[Len(after.waits)] ELSE 0

InitRequest ==
    /\ now = 0
    /\ log = NewLog(Player, now)
    /\ logFile = AbsentFile
    /\ cacheFile = AbsentFile
    /\ cache = NoCache
    /\ IdleRun
    /\ NoHistory

\* a client method calls execute_request(url): the 150 ms delay
RequestStart ==
    /\ IF analysis.op = "none" THEN TRUE ELSE analysis.pc = "returned"
    /\ calls < MaxRequests
    /\ \E url \in Urls : analysis' = NewRequest(url)
    /\ now' = now + REQUEST_DELAY_MS
    /\ calls' = calls + 1
    /\ lastStep' = "request"
    /\ UNCHANGED <<budgetVars, cacheVars, runVars>>
    /\ UNCHANGED <<records, saves, lastBatch, startUnique, steps>>
    /\ UNCHANGED <<outVars, trackVars>>

\* call() answers: the request returns, or waits and calls again
Respond ==
    /\ analysis.op = "execute_request"
    /\ analysis.pc = "call"
    /\ \E response \in Responses :
          analysis' = OnResponse(analysis, response)
    /\ now' = now + Slept(analysis, analysis')
    /\ lastStep' = "response"
    /\ UNCHANGED <<budgetVars, cacheVars, runVars>>
    /\ UNCHANGED <<calls, records, saves, lastBatch, startUnique, steps>>
    /\ UNCHANGED <<outVars, trackVars>>

NextRequest == RequestStart \/ Respond

\* every call() comes back with an answer
SpecRequest ==
    InitRequest /\ [][NextRequest]_vars /\ WF_vars(Respond)

----------------------------------------------------------------------------
(* SpecPaths: caches and budgets of several players saved into the one      *)
(* directory ~/.league_detect.  A string is the sequence of its characters, *)
(* a path is the file name within that directory.                           *)

MaxSaves == 3

JsonSuffix == <<".", "j", "s", "o", "n">>
RateLimitSuffix ==
    <<".", "r", "a", "t", "e", "l", "i", "m", "i", "t">> \o JsonSuffix

\* str::replace("#", "_")
ReplaceHash(str) == [i \in DOMAIN str |-> IF str[i] = "#" THEN "_" ELSE str[i]]

\* MatchCache::get_cache_path(): format!("{}.json", player.replace("#", "_"))
GetCachePath(player) == ReplaceHash(player) \o JsonSuffix

\* RequestLog::get_log_path():
\* format!("{}.ratelimit.json", player.replace("#", "_"))
GetLogPath(player) == ReplaceHash(player) \o RateLimitSuffix

\* main.rs line 74: format!("{}#{}", game_name, tag_line)
PlayerKey(game_name, tag_line) == game_name \o <<"#">> \o tag_line

GameNames == {<<"a">>, <<"a", "_", "b">>}
TagLines ==
    {<<"c">>, <<"b", "_", "c">>,
     <<"c", ".", "r", "a", "t", "e", "l", "i", "m", "i", "t">>}
PlayerKeys == {PlayerKey(g, t) : g \in GameNames, t \in TagLines}

PathOf(concern, player) ==
    IF concern = "cache" THEN GetCachePath(player) ELSE GetLogPath(player)

\* the files of the directory: each with its path, whose state of which
\* concern was written to it last, and whether it holds that state or was
\* left empty by a write that failed
FilesOf(a) == IF a.op = "save" THEN a.files ELSE {}

InitPaths ==
    /\ now = 0
    /\ log = NewLog(Player, now)
    /\ logFile = AbsentFile
    /\ cacheFile = AbsentFile
    /\ cache = NoCache
    /\ IdleRun
    /\ NoHistory

\* what save() returns: Ok(()), or the JsonError of the map_err
SaveResult(outcome) == IF outcome = "written" THEN "ok" ELSE "JsonError"

\* fs::write(path, ..) of save(): written, it replaces whatever the path
\* held; failing after the file was opened, it leaves the file empty;
\* refused, it returns the error and the directory is as it was
Written(a, concern, player, outcome) ==
    LET path == PathOf(concern, player)
        replaced == IF outcome = "refused" THEN {}
                    ELSE {f \in FilesOf(a) : f.path = path}
        written == [path |-> path, concern |-> concern, player |-> player,
                    empty |-> outcome # "written"]
    IN  [op |-> "save",
         files |-> IF outcome = "refused" THEN FilesOf(a)
                   ELSE (FilesOf(a) \ replaced) \cup {written},
         written |-> written,
         replaced |-> replaced,
         result |-> SaveResult(outcome)]

\* MatchCache::save() of a player
SaveCacheFile ==
    /\ steps < MaxSaves
    /\ \E player \in PlayerKeys, outcome \in SaveOutcomes :
          /\ analysis' = Written(analysis, "cache", player, outcome)
          /\ failedSaves' = IF outcome = "written" THEN 0 ELSE 1
    /\ steps' = steps + 1
    /\ lastStep' = "save_cache"
    /\ UNCHANGED <<now, budgetVars, cacheVars, runVars>>
    /\ UNCHANGED <<calls, records, saves, lastBatch, startUnique>>
    /\ UNCHANGED <<shown, trackVars>>

\* RequestLog::save() of a player
SaveBudgetFile ==
    /\ steps < MaxSaves
    /\ \E player \in PlayerKeys, outcome \in SaveOutcomes :
          /\ analysis' = Written(analysis, "budget", player, outcome)
          /\ failedSaves' = IF outcome = "written" THEN 0 ELSE 1
    /\ steps' = steps + 1
    /\ lastStep' = "save_budget"
    /\ UNCHANGED <<now, budgetVars, cacheVars, runVars>>
    /\ UNCHANGED <<calls, records, saves, lastBatch, startUnique>>
    /\ UNCHANGED <<shown, trackVars>>

NextPaths == SaveCacheFile \/ SaveBudgetFile

SpecPaths == InitPaths /\ [][NextPaths]_vars

----------------------------------------------------------------------------
(* Claims about the rankings *)

\* the largest recency_score of a non-empty list
LargestRecency(stats) ==
    CHOOSE m \in {stats[i].recency_score : i \in DOMAIN stats} :
        \A i \in DOMAIN stats : F64Leq(stats[i].recency_score, m)

ResultNames(recs) == {recs[i].champion_name : i \in DOMAIN recs}

\* C22: get_recommendations(stats, total_games, top_n) returns exactly
\* min(top_n, number of stats) entries, each the entry of a stat of the
\* input, in descending order of score, and no omitted stat scores strictly
\* higher than a returned one; top_n = 0 and an empty list give an empty
\* result, and no entry carries the negative-infinity sentinel.
C22_TopNByScore ==
    analysis.op = "recommendations" =>
        LET stats == analysis.stats
            recs == analysis.result
            ScoreOf(st) ==
                CalculateScore(st, analysis.total_games,
                               LargestRecency(stats))
        IN  /\ Len(recs) = Min(analysis.top_n, Len(stats))
            /\ \A i, j \in DOMAIN recs :
                  /\ i < j => F64Leq(recs[j].score, recs[i].score)
                  /\ recs[i].champion_name = recs[j].champion_name
                        => i = j
            /\ \A i \in DOMAIN recs :
                  /\ \E k \in DOMAIN stats :
                        /\ stats[k].name = recs[i].champion_name
                        /\ recs[i].score = ScoreOf(stats[k])
                  /\ recs[i].score.kind = "finite"
                  /\ recs[i].score # NegInfinity
            /\ \A k \in DOMAIN stats :
                  stats[k].name \notin ResultNames(recs) =>
                      \A i \in DOMAIN recs :
                          ~F64Less(recs[i].score, ScoreOf(stats[k]))
            /\ (analysis.top_n = 0 \/ stats = <<>>) => recs = <<>>

\* C22 witness: the two best of three stats, the best of them last in the
\* input and the worst first
C22_Witness ==
    /\ analysis.op = "recommendations"
    /\ Len(analysis.stats) = 3
    /\ analysis.top_n = 2
    /\ Len(analysis.result) = 2
    /\ analysis.result[1].champion_name = analysis.stats[3].name
    /\ analysis.stats[1].name \notin ResultNames(analysis.result)
    /\ F64Less(analysis.result[2].score, analysis.result[1].score)

\* the position of the stat of that name in the input sequence
PositionOf(stats, name) ==
    CHOOSE i \in DOMAIN stats : stats[i].name = name

\* C23: ties are broken stably: two entries of get_recommendations() with
\* equal score, and two entries of analyze_allies() with equal win rate,
\* stand in the result in the order their stats have in the input sequence.
C23_StableTies ==
    /\ analysis.op = "recommendations" =>
          \A i, j \in DOMAIN analysis.result :
              (i < j /\ analysis.result[i].score = analysis.result[j].score)
                  => PositionOf(analysis.stats,
                                analysis.result[i].champion_name)
                       < PositionOf(analysis.stats,
                                    analysis.result[j].champion_name)
    /\ analysis.op = "allies" =>
          \A i, j \in DOMAIN analysis.result :
              (i < j /\ analysis.result[i].win_rate
                            = analysis.result[j].win_rate)
                  => PositionOf(analysis.stats,
                                analysis.result[i].champion_name)
                       < PositionOf(analysis.stats,
                                    analysis.result[j].champion_name)

\* C23 witness: a ranking of three stats whose last two entries tie on the
\* score while the first scores higher and stood last in the input
C23_Witness ==
    /\ analysis.op = "recommendations"
    /\ Len(analysis.result) = 3
    /\ analysis.result[2].score = analysis.result[3].score
    /\ F64Less(analysis.result[2].score, analysis.result[1].score)
    /\ analysis.result[1].champion_name = analysis.stats[3].name
    /\ analysis.result[2].champion_name = analysis.stats[1].name

\* C24: every BanRecommendation of get_recommendations() has a frequency
\* percentage within 0..100 and a win rate within 0..1, for every stat list
\* with wins_against <= times_faced and every total_games (also one smaller
\* than a stat's times_faced), and its times_faced is that of its stat.
C24_PercentagesInRange ==
    (/\ analysis.op = "recommendations"
     /\ \A k \in DOMAIN analysis.stats :
           analysis.stats[k].wins_against <= analysis.stats[k].times_faced)
        => \A i \in DOMAIN analysis.result :
               LET r == analysis.result[i]
                   stat == analysis.stats[PositionOf(analysis.stats,
                                                     r.champion_name)]
               IN  /\ F64Leq(F64Zero, r.frequency)
                   /\ F64Leq(r.frequency, F64Hundred)
                   /\ F64Leq(F64Zero, r.win_rate)
                   /\ F64Leq(r.win_rate, F64One)
                   /\ r.times_faced = stat.times_faced

\* C25: analyze_allies(stats, min_games_together) returns one entry for
\* each stat with times_faced >= min_games_together and none for the
\* others, each with games = times_faced and wins = wins_against, in
\* ascending order of win rate.
C25_AlliesFilteredAscending ==
    analysis.op = "allies" =>
        LET stats == analysis.stats
            recs == analysis.result
            Kept == {k \in DOMAIN stats :
                        stats[k].times_faced >= analysis.min_games_together}
        IN  /\ Len(recs) = Cardinality(Kept)
            /\ ResultNames(recs) = {stats[k].name : k \in Kept}
            /\ \A i \in DOMAIN recs :
                  LET stat == stats[PositionOf(stats, recs[i].champion_name)]
                  IN  /\ recs[i].times_played_together = stat.times_faced
                      /\ recs[i].wins_together = stat.wins_against
            /\ \A i, j \in DOMAIN recs :
                  i < j => F64Leq(recs[i].win_rate, recs[j].win_rate)

\* C25 witness: of three allies the one with a single shared game is left
\* out by a threshold of 2, and the other two come out in the reverse of
\* their input order
C25_Witness ==
    /\ analysis.op = "allies"
    /\ analysis.min_games_together = 2
    /\ Len(analysis.stats) = 3
    /\ Len(analysis.result) = 2
    /\ \E k \in DOMAIN analysis.stats :
          /\ analysis.stats[k].times_faced = 1
          /\ analysis.stats[k].name \notin ResultNames(analysis.result)
    /\ PositionOf(analysis.stats, analysis.result[2].champion_name)
          < PositionOf(analysis.stats, analysis.result[1].champion_name)

----------------------------------------------------------------------------
(* Claims about the staleness check *)

\* C26: is_stale(max_age_mins) is true exactly when the time elapsed since
\* last_updated exceeds the threshold of max_age_mins minutes (5 minutes 30
\* seconds against 5 is stale), it leaves the cache as it was, and right
\* after add_matches() it is false for every threshold.
C26_StaleIffOlder ==
    analysis.op = "is_stale" =>
        /\ ~analysis.max_age_mins.from_top =>
              (analysis.result
                  <=> LongerThanMs(analysis.elapsed,
                                   analysis.max_age_mins.v * MsPerMinute))
        /\ lastStep = "is_stale" => cache = analysis.cache
        /\ analysis.after_add => ~analysis.result

----------------------------------------------------------------------------
(* Claims about the budget status *)

\* the word is a plain value within 0 .. max
WithinMax(word, max) == ~word.from_top /\ word.v \in 0 .. max

\* C27: in every state of run() the budget's counts stay within their
\* maxima (requests_per_2min <= 100, requests_per_sec <= 20), so the
\* subtractions of get_remaining() that display_status() evaluates never
\* underflow and the remaining counts it reports are within 0..MAX;
\* get_remaining() and get_reset_times() leave the budget as it was.
C27_RemainingWithinMax ==
    /\ log.requests_per_2min <= MAX_REQUESTS_PER_2MIN
    /\ log.requests_per_sec <= MAX_REQUESTS_PER_SEC
    /\ analysis.op = "display_status" =>
          /\ ~analysis.remaining.panicked
          /\ WithinMax(analysis.remaining.rem_2min, MAX_REQUESTS_PER_2MIN)
          /\ WithinMax(analysis.remaining.rem_sec, MAX_REQUESTS_PER_SEC)
          /\ log = analysis.log

----------------------------------------------------------------------------
(* Claims about the HTTP client *)

Is429(response) == response.kind = "status" /\ response.code = 429

\* what holds of a request at every moment
RequestInvariant(req) ==
    LET n == Len(req.responses)
    IN  /\ n <= MAX_RETRIES + 1
        /\ \A i \in 1 .. n - 1 : Is429(req.responses[i])
        /\ req.pc = "call" =>
              /\ n <= MAX_RETRIES
              /\ \A i \in 1 .. n : Is429(req.responses[i])
              /\ Len(req.waits) = n
        /\ req.pc = "returned" =>
              /\ n >= 1
              /\ Len(req.waits) = n - 1
              /\ req.outcome = "Ok"
                    <=> req.responses[n] = OkResponse(TRUE)
              /\ req.outcome = "RateLimited"
                    <=> (n = MAX_RETRIES + 1 /\ Is429(req.responses[n]))
              /\ req.outcome = "HttpError"
                    <=> (~Is429(req.responses[n])
                           /\ req.responses[n] # OkResponse(TRUE))
        /\ \A k \in DOMAIN req.waits : req.waits[k] = 2000 * k

\* C28: execute_request() returns after at most 4 HTTP attempts: a
\* successful response and a failure other than 429 end it at once (Ok,
\* resp. HttpError), the k-th retry comes after a 429 and a wait of
\* 2000 * k ms, RateLimited is returned exactly when 4 attempts in a row
\* answered 429, and every request that was started returns.
C28_AtMostFourAttempts ==
    /\ [](analysis.op = "execute_request" => RequestInvariant(analysis))
    /\ [][(analysis.op = "execute_request" /\ analysis.pc = "call"
              /\ analysis'.op = "execute_request"
              /\ analysis'.url = analysis.url
              /\ Len(analysis'.responses) = Len(analysis.responses) + 1)
           => IF Is429(analysis'.responses[Len(analysis'.responses)])
                 /\ Len(analysis.responses) < MAX_RETRIES
              THEN /\ analysis'.pc = "call"
                   /\ now' = now + 2000 * Len(analysis'.responses)
              ELSE /\ analysis'.pc = "returned"
                   /\ now' = now]_vars
    /\ ((analysis.op = "execute_request" /\ analysis.pc = "call")
          ~> (analysis.op = "execute_request" /\ analysis.pc = "returned"))

\* C28 witness: a request that gave up after four answers of 429 and waits
\* of 2, 4 and 6 seconds
C28_Witness ==
    /\ analysis.op = "execute_request"
    /\ analysis.pc = "returned"
    /\ analysis.outcome = "RateLimited"
    /\ Len(analysis.responses) = 4
    /\ analysis.waits = <<2000, 4000, 6000>>
    /\ now = REQUEST_DELAY_MS + 12000

----------------------------------------------------------------------------
(* Claims about the files *)

\* C29: durable state is isolated per player and per concern: the cache
\* paths of two distinct player keys differ, so do their budget paths, no
\* cache path equals a budget path, and a save never replaces a file of
\* another player or of the other concern.
C29_FilesIsolated ==
    analysis.op = "save" =>
        LET Players == {f.player : f \in analysis.files \cup analysis.replaced}
        IN  /\ \A p, q \in Players :
                  /\ p # q => /\ GetCachePath(p) # GetCachePath(q)
                              /\ GetLogPath(p) # GetLogPath(q)
                  /\ GetCachePath(p) # GetLogPath(q)
            /\ \A f \in analysis.replaced :
                  /\ f.player = analysis.written.player
                  /\ f.concern = analysis.written.concern

====
